---- MODULE Spec2Model ----
(***************************************************************************)
(* Model of the LangGraph workflow of ByteMeAgent (src/agent.py) and of    *)
(* the memory manager it talks to (src/memory_manager.py).                 *)
(*                                                                         *)
(* Text representation.  A Python str is modelled as a sequence of tokens; *)
(* every token is a TLA+ string that stands for an indivisible run of      *)
(* characters.  len() is the number of tokens, slicing is SubSeq, the `in` *)
(* operator is an occurrence of a token sequence, "" is <<>>.              *)
(***************************************************************************)
EXTENDS Naturals, Integers, Sequences, FiniteSets, TLC

(* ---------------------------------------------------------------- bounds *)
MaxDocs == 2      \* longest result list the Retriever hands back (<= k)
MaxSteps == 17    \* cap on executed nodes of one request

(* ------------------------------------------------------- text primitives *)
\* str.lower() on one token: only tokens with cased letters change
LowerTok(t) ==
    CASE t = "Summarize"     -> "summarize"
      [] t = "Recap"         -> "recap"
      [] t = "Page"          -> "page"
      [] t = "Not Available" -> "not available"
      [] t = "Not Present"   -> "not present"
      [] t = "YES"           -> "yes"
      [] OTHER               -> t

Lower(text) == [i \in 1..Len(text) |-> LowerTok(text[i])]

\* needle in text
Contains(text, needle) ==
    \E i \in 1..(Len(text) - Len(needle) + 1) :
        SubSeq(text, i, i + Len(needle) - 1) = needle

IsSpace(t) == t \in {" ", "\n"}

\* str.strip(): drop leading and trailing whitespace tokens
RECURSIVE LStrip(_)
LStrip(text) ==
    IF text # <<>> /\ IsSpace(Head(text)) THEN LStrip(Tail(text)) ELSE text

RECURSIVE RStrip(_)
RStrip(text) ==
    IF text # <<>> /\ IsSpace(text[Len(text)])
    THEN RStrip(SubSeq(text, 1, Len(text) - 1))
    ELSE text

Strip(text) == RStrip(LStrip(text))

\* text[:n]
Take(text, n) == SubSeq(text, 1, IF Len(text) < n THEN Len(text) ELSE n)

\* str.replace(tok, "")
RemoveTok(text, tok) == SelectSeq(text, LAMBDA t : t # tok)

\* sep.join(list of texts)
RECURSIVE Join(_, _)
Join(sep, texts) ==
    IF texts = <<>> THEN <<>>
    ELSE IF Len(texts) = 1 THEN texts[1]
    ELSE texts[1] \o sep \o Join(sep, Tail(texts))

(* --------------------------------------------------- question classifier *)
memory_keywords ==
    { <<"summarize">>, <<"summary">>, <<"what did we">>, <<"what have we">>,
      <<"discussed">>, <<"talked about">>, <<"conversation so far">>,
      <<"recap">>, <<"previous">>, <<"earlier">>, <<"remember when">>,
      <<"you said">>, <<"i said">>, <<"we discussed">>, <<"our conversation">>,
      <<"what was">>, <<"remind me">>, <<"go over">>, <<"review">>,
      <<"so far">>, <<"up to now">>, <<"until now">>, <<"thus far">> }

_is_memory_question(question) ==
    \E kw \in memory_keywords : Contains(Lower(question), kw)

NoPage == -1          \* Python None for page_number

DigitTokens == {"0", "2", "7", "12"}
IntOf(t) == CASE t = "0" -> 0 [] t = "2" -> 2 [] t = "7" -> 7 [] t = "12" -> 12

OrdinalSuffix == {"st", "nd", "rd", "th"}

\* index of the first non-space token at or after i (Len+1 if none)
RECURSIVE SkipSpace(_, _)
SkipSpace(q, i) ==
    IF i <= Len(q) /\ IsSpace(q[i]) THEN SkipSpace(q, i + 1) ELSE i

IsDigitAt(q, i) == i <= Len(q) /\ q[i] \in DigitTokens

\* word \s* (\d+) anchored at i; the result is the page or NoPage
WordThenDigits(q, i, words) ==
    IF q[i] \in words /\ IsDigitAt(q, SkipSpace(q, i + 1))
    THEN IntOf(q[SkipSpace(q, i + 1)]) ELSE NoPage

\* page\s*(?:number\s*)?(\d+)
PatPage(q, i) ==
    IF q[i] # "page" THEN NoPage
    ELSE LET j == SkipSpace(q, i + 1)
         IN  IF j <= Len(q) /\ q[j] = "number" /\ IsDigitAt(q, SkipSpace(q, j + 1))
             THEN IntOf(q[SkipSpace(q, j + 1)])
             ELSE IF IsDigitAt(q, j) THEN IntOf(q[j]) ELSE NoPage

\* (\d+)(?:st|nd|rd|th)?\s+page
PatOrdinalPage(q, i) ==
    IF ~IsDigitAt(q, i) THEN NoPage
    ELSE LET j == IF i + 1 <= Len(q) /\ q[i + 1] \in OrdinalSuffix
                  THEN i + 2 ELSE i + 1
         IN  IF j <= Len(q) /\ IsSpace(q[j])
                /\ SkipSpace(q, j) <= Len(q) /\ q[SkipSpace(q, j)] = "page"
             THEN IntOf(q[i]) ELSE NoPage

\* on\s+(\d+)(?:st|nd|rd|th)?\s+page
PatOnOrdinalPage(q, i) ==
    IF q[i] = "on" /\ i + 1 <= Len(q) /\ IsSpace(q[i + 1])
    THEN PatOrdinalPage(q, SkipSpace(q, i + 1)) ELSE NoPage

\* (from|in)\s+page\s*(\d+)
PatPrepPage(q, i, prep) ==
    IF q[i] = prep /\ i + 1 <= Len(q) /\ IsSpace(q[i + 1])
       /\ SkipSpace(q, i + 1) <= Len(q)
    THEN WordThenDigits(q, SkipSpace(q, i + 1), {"page"}) ELSE NoPage

\* the ordered pattern list; pattern k anchored at i
PagePattern(k, q, i) ==
    CASE k = 1 -> PatPage(q, i)
      [] k = 2 -> WordThenDigits(q, i, {"pg", "pg."})
      [] k = 3 -> WordThenDigits(q, i, {"p", "p."})
      [] k = 4 -> PatOnOrdinalPage(q, i)
      [] k = 5 -> PatOrdinalPage(q, i)
      [] k = 6 -> PatPrepPage(q, i, "from")
      [] k = 7 -> PatPrepPage(q, i, "in")

NumPatterns == 7

\* re.search: leftmost match of pattern k
RECURSIVE SearchFrom(_, _, _)
SearchFrom(k, q, i) ==
    IF i > Len(q) THEN NoPage
    ELSE IF PagePattern(k, q, i) # NoPage THEN PagePattern(k, q, i)
    ELSE SearchFrom(k, q, i + 1)

RECURSIVE FirstPattern(_, _)
FirstPattern(k, q) ==
    IF k > NumPatterns THEN NoPage
    ELSE IF SearchFrom(k, q, 1) # NoPage THEN SearchFrom(k, q, 1)
    ELSE FirstPattern(k + 1, q)

_extract_page_number(question) == FirstPattern(1, Lower(question))

_is_page_question(question) == _extract_page_number(question) # NoPage

(* -------------------------------------------------------- parse_json_safe *)
NoKey == "<absent>"      \* dict.get(key) is None

Dict(score, tool) == [isdict |-> TRUE, score |-> score, tool |-> tool]
NotADict == [isdict |-> FALSE, score |-> NoKey, tool |-> NoKey]
DecodeError == [isdict |-> FALSE, score |-> "<error>", tool |-> "<error>"]

\* json.loads on the texts the LLM backends of this model produce
JsonLoads(text) ==
    LET t == Strip(text)
    IN  IF Len(t) # 1 THEN DecodeError
        ELSE CASE t[1] = "{\"score\": \"yes\"}" -> Dict("yes", NoKey)
               [] t[1] = "{\"score\": \"no\"}"  -> Dict("no", NoKey)
               [] t[1] = "{\"tool\": \"create_ticket\", \"parameters\": {}}"
                                                -> Dict(NoKey, "create_ticket")
               [] t[1] = "{\"tool\": \"none\"}" -> Dict(NoKey, "none")
               [] t[1] = "1"                    -> NotADict
               [] OTHER                         -> DecodeError

\* ast.literal_eval accepts the JSON texts above and single-quoted dicts
LiteralEval(text) ==
    LET t == Strip(text)
    IN  IF Len(t) # 1 THEN DecodeError
        ELSE CASE t[1] = "{'score': 'yes'}" -> Dict("yes", NoKey)
               [] t[1] = "{'score': 'no'}"  -> Dict("no", NoKey)
               [] t[1] = "{'tool': 'check_status'}" -> Dict(NoKey, "check_status")
               [] OTHER -> JsonLoads(text)

\* the markdown fence tokens (three backquotes, with and without "json")
FenceJson == "<fence>json"
Fence == "<fence>"

parse_json_safe(text_output) ==
    LET text == RemoveTok(RemoveTok(Strip(text_output), FenceJson), Fence)
    IN  IF JsonLoads(text) # DecodeError THEN JsonLoads(text)
        ELSE IF LiteralEval(text) # DecodeError THEN LiteralEval(text)
        ELSE IF Contains(Lower(text), <<"yes">>) THEN Dict("yes", NoKey)
        ELSE Dict("no", NoKey)

\* outcome of one LLM-backed call: the call raised, or it returned raw text
Raised == [raised |-> TRUE, text |-> <<>>]
Returned(text) == [raised |-> FALSE, text |-> text]

GraderTexts ==
    { <<FenceJson, "\n", "{\"score\": \"yes\"}", "\n", Fence>>,
      <<"{\"score\": \"no\"}">>,
      <<"{'score': 'yes'}">>,
      <<"YES", " ", "it is relevant">>,
      <<"cannot tell">>,
      <<"1">> }

GraderOutcomes == {Raised} \cup {Returned(t) : t \in GraderTexts}

ToolTexts ==
    { <<"{\"tool\": \"create_ticket\", \"parameters\": {}}">>,
      <<"{\"tool\": \"none\"}">>,
      <<"no tool needed">>,
      <<"1">> }

ToolOutcomes == {Raised} \cup {Returned(t) : t \in ToolTexts}

(* ------------------------------------------------------ short-term memory *)
max_exchanges == 10
short_term_n == 3
long_term_n == 2
QuestionCut == 100
AnswerCut == 150

Exchange(q, a, domain) == [question |-> q, answer |-> a, domain |-> domain]

\* variant: the key leaves the session out
_get_key_user_only(session_id, user_id) == <<"byteme:session", user_id>>

\* _get_key: the pair stands for the text "byteme:session:<user>:<session>";
\* user ids are "EMP_" and eight hex digits (create_user), so the text names
\* exactly one pair
_get_key(session_id, user_id) == <<"byteme:session", user_id, session_id>>

\* list[-n:]
LastN(list, n) ==
    IF Len(list) <= n THEN list ELSE SubSeq(list, Len(list) - n + 1, Len(list))

\* variant: the history is not cut
StoreAppend_no_cut(history, exchange) == Append(history, exchange)

\* ShortTermMemory.add_exchange on one stored history
StoreAppend(history, exchange) == LastN(Append(history, exchange), max_exchanges)

\* ShortTermMemory.get_history
\* (in-memory branch); n = 0 stands for n = None: n or self.max_exchanges
get_history(store, session_id, user_id, n) ==
    LET key == _get_key(session_id, user_id)
        m == IF n = 0 THEN max_exchanges ELSE n
    IN  IF key \in DOMAIN store THEN LastN(store[key], m) ELSE <<>>

IdxTok(i) == CASE i = 1 -> "[1]" [] i = 2 -> "[2]" [] i = 3 -> "[3]" [] OTHER -> "[n]"

Cut(text, n) == IF Len(text) > n THEN Take(text, n) \o <<"...">> ELSE text

\* ShortTermMemory.format_for_prompt
format_for_prompt(store, session_id, user_id, n) ==
    LET history == get_history(store, session_id, user_id, n)
        line(i) == <<IdxTok(i), " Q: ">> \o Cut(history[i].question, QuestionCut)
                   \o <<"\n    A: ">> \o Cut(history[i].answer, AnswerCut)
    IN  IF history = <<>> THEN <<"No previous conversation.">>
        ELSE Join(<<"\n">>, [i \in 1..Len(history) |-> line(i)])

(* ------------------------------------------------------- long-term memory *)
PastTok(i) == CASE i = 1 -> "[Past 1]" [] i = 2 -> "[Past 2]" [] OTHER -> "[Past n]"

\* PostgresLongTermMemory.format_for_prompt / LongTermMemory.format_for_prompt
lt_format_for_prompt(memories) ==
    LET line(i) == <<PastTok(i), " Q: ">>
                   \o Take(memories[i].question, QuestionCut) \o <<"...">>
                   \o <<"\n         A: ">>
                   \o Take(memories[i].answer, AnswerCut) \o <<"...">>
    IN  IF memories = <<>> THEN <<"No relevant past conversations found.">>
        ELSE Join(<<"\n">>, [i \in 1..Len(memories) |-> line(i)])

\* MemoryManager.get_context; memories is what retrieve_relevant returned
get_context(store, has_long_term, memories, session_id, user_id) ==
    [ short_term |-> format_for_prompt(store, session_id, user_id, short_term_n),
      long_term  |-> IF has_long_term THEN lt_format_for_prompt(memories)
                     ELSE <<"Long-term memory not available.">> ]

(* ------------------------------------------------------------ AgentState *)
Domain == "IT Service Desk"
UserId == "u1"
SessionId == "s1"

\* the state invoke hands to the graph
InitialState(question) ==
    [ question |-> question,
      original_question |-> question,
      domain |-> Domain,
      user_id |-> UserId,
      session_id |-> SessionId,
      documents |-> <<>>,
      generation |-> <<>>,
      is_grounded |-> FALSE,
      is_memory_question |-> FALSE,
      is_page_question |-> FALSE,
      page_number |-> NoPage,
      retries |-> 0,
      memory_context |-> <<>>,
      long_term_memory |-> <<>>,
      should_store_memory |-> FALSE,
      tool_calls |-> <<>>,
      tool_result |-> <<>>,
      reasoning_steps |-> <<>>,
      document_sources |-> <<>>,
      retrieval_results |-> <<>>,
      web_search_results |-> <<>> ]

\* LangGraph merges a node's partial update: every returned key overwrites
Merge(s, update) ==
    [k \in DOMAIN s |-> IF k \in DOMAIN update THEN update[k] ELSE s[k]]

(* ----------------------------------------------------------------- nodes *)
\* variant: a failed get_context leaves its error text as the memory context
memory_retrieval_node_error_text(s, ctx) ==
    [ memory_context |-> IF ctx.raised THEN <<"Memory retrieval error">>
                         ELSE ctx.short_term,
      long_term_memory |-> IF ctx.raised THEN <<>> ELSE ctx.long_term,
      original_question |-> s.question,
      reasoning_steps |-> s.reasoning_steps \o
          (IF ctx.raised
           THEN <<"Retrieving relevant memories...", "Memory retrieval error">>
           ELSE <<"Retrieving relevant memories...", "Short-term", "Long-term">>) ]

\* ctx = [raised |-> BOOL, short_term, long_term]: what get_context did
memory_retrieval_node(s, ctx) ==
    LET original == IF s.original_question # <<>> THEN s.original_question
                    ELSE s.question
    IN  IF ~ctx.raised
        THEN [ memory_context |-> ctx.short_term,
               long_term_memory |-> ctx.long_term,
               original_question |-> original,
               reasoning_steps |-> s.reasoning_steps \o
                   <<"Retrieving relevant memories...", "Short-term", "Long-term">> ]
        ELSE [ memory_context |-> <<>>,
               long_term_memory |-> <<>>,
               original_question |-> original,
               reasoning_steps |-> s.reasoning_steps \o
                   <<"Retrieving relevant memories...", "Memory retrieval error">> ]

\* variant: the memory test also looks at the memory context of the request
check_memory_question_node_uses_memory(s) ==
    LET is_memory_q == _is_memory_question(s.question) /\ s.memory_context # <<>>
        is_page_q == _is_page_question(s.question)
        page_num == IF is_page_q THEN _extract_page_number(s.question) ELSE NoPage
    IN  [ is_memory_question |-> is_memory_q,
          is_page_question |-> is_page_q,
          page_number |-> page_num,
          reasoning_steps |-> s.reasoning_steps \o <<"Checking question type...">> ]

check_memory_question_node(s) ==
    LET is_memory_q == _is_memory_question(s.question)
        is_page_q == _is_page_question(s.question)
        page_num == IF is_page_q THEN _extract_page_number(s.question) ELSE NoPage
        reasoning ==
            IF is_memory_q
            THEN <<"Checking question type...", "memory/conversation question",
                   "Will answer from conversation history">>
            ELSE IF is_page_q
            THEN <<"Checking question type...", "page-specific question",
                   "Will retrieve content from specified page">>
            ELSE <<"Checking question type...", "requires document retrieval">>
    IN  [ is_memory_question |-> is_memory_q,
          is_page_question |-> is_page_q,
          page_number |-> page_num,
          reasoning_steps |-> s.reasoning_steps \o reasoning ]

\* r.get(key, default) on a retrieval record
GetOr(value, default) == IF value = NoKey THEN default ELSE value

PageTok(n) == CASE n = 0 -> "0" [] n = 2 -> "2" [] n = 7 -> "7" [] n = 12 -> "12"
                [] OTHER -> "None"

Contents(results) == [i \in 1..Len(results) |-> results[i].content]

\* engine = [raised, page, search]: get_page_content and search_by_page results
page_retrieve_node(s, engine) ==
    LET page_num == s.page_number
        head == <<"Retrieving content from Page">>
    IN  IF engine.raised
        THEN [ documents |-> <<>>, document_sources |-> <<>>,
               retrieval_results |-> <<>>,
               reasoning_steps |-> s.reasoning_steps \o head \o
                   <<"Page retrieval error">> ]
        ELSE IF engine.page # <<>>
        THEN [ documents |-> Contents(engine.page),
               document_sources |->
                   [i \in 1..Len(engine.page) |->
                       <<GetOr(engine.page[i].source, "Document"),
                         " (Page ", PageTok(page_num), ")">>],
               retrieval_results |-> engine.page,
               reasoning_steps |-> s.reasoning_steps \o head \o <<"Found chunks">> ]
        ELSE IF engine.search # <<>>
        THEN [ documents |-> Contents(engine.search),
               document_sources |->
                   [i \in 1..Len(engine.search) |->
                       IF engine.search[i].source = NoKey
                       THEN <<"Page ", PageTok(page_num)>>
                       ELSE <<engine.search[i].source>>],
               retrieval_results |-> engine.search,
               reasoning_steps |-> s.reasoning_steps \o head \o
                   <<"Found relevant results">> ]
        ELSE [ documents |-> <<>>, document_sources |-> <<>>,
               retrieval_results |-> <<>>,
               reasoning_steps |-> s.reasoning_steps \o head \o
                   <<"No content found for page">> ]

PageErrorMessage(page_num) ==
    <<"I couldn't find content for page ", PageTok(page_num),
      ". Please check the page number and try again.">>

\* llm = Raised or Returned(text): the page_answer_chain call
page_answer_node(s, llm) ==
    LET head == <<"Generating answer from Page content...">>
    IN  IF ~llm.raised
        THEN [ generation |-> llm.text,
               is_grounded |-> TRUE,
               should_store_memory |-> TRUE,
               reasoning_steps |-> s.reasoning_steps \o head \o <<"Generated chars">> ]
        ELSE [ generation |-> PageErrorMessage(s.page_number),
               is_grounded |-> FALSE,
               should_store_memory |-> FALSE,
               reasoning_steps |-> s.reasoning_steps \o head \o <<"Generation error">> ]

NoHistoryMessage ==
    <<"I don't have any previous conversation history to summarize. This appears to be the start of our conversation. How can I help you today?">>

MemoryErrorMessage ==
    <<"I encountered an error while summarizing our conversation. Please try again.">>

\* llm is consulted only when there is some memory to work with
memory_answer_node(s, llm) ==
    LET head == <<"Answering from conversation memory...">>
    IN  IF s.memory_context = <<>> /\ s.long_term_memory = <<>>
        THEN [ generation |-> NoHistoryMessage,
               is_grounded |-> TRUE,
               should_store_memory |-> FALSE,
               reasoning_steps |-> s.reasoning_steps \o head \o
                   <<"No conversation history found">> ]
        ELSE IF ~llm.raised
        THEN [ generation |-> llm.text,
               is_grounded |-> TRUE,
               should_store_memory |-> TRUE,
               reasoning_steps |-> s.reasoning_steps \o head \o
                   <<"Generated chars from memory">> ]
        ELSE [ generation |-> MemoryErrorMessage,
               is_grounded |-> FALSE,
               should_store_memory |-> FALSE,
               reasoning_steps |-> s.reasoning_steps \o head \o <<"Error">> ]

\* llm = Raised or Returned(raw text) of the tool_chain
tool_detection_node(s, llm) ==
    LET head == <<"Detecting required tools...">>
        tool_info == parse_json_safe(llm.text)
    IN  IF llm.raised
        THEN [ tool_calls |-> <<>>,
               reasoning_steps |-> s.reasoning_steps \o head \o
                   <<"Tool detection error", "No specific tool needed">> ]
        ELSE IF ~tool_info.isdict
        THEN [ tool_calls |-> <<>>,
               reasoning_steps |-> s.reasoning_steps \o head \o
                   <<"Tool detection error", "No specific tool needed">> ]
        ELSE IF tool_info.tool # NoKey /\ tool_info.tool # "none"
        THEN [ tool_calls |-> <<tool_info>>,
               reasoning_steps |-> s.reasoning_steps \o head \o
                   <<"Detected tool", "Parameters">> ]
        ELSE [ tool_calls |-> <<>>,
               reasoning_steps |-> s.reasoning_steps \o head \o
                   <<"No specific tool needed">> ]

\* variant: a failed search is not counted against the retry budget
retrieve_node_no_count(s, search) ==
    LET head == <<"Searching for">>
        results == search.results
        doc_sources == [i \in 1..Len(results) |->
                           <<GetOr(results[i].source, "Unknown"), " (",
                             GetOr(results[i].type, "text"), ")">>]
    IN  IF ~search.raised
        THEN [ documents |-> Contents(results),
               document_sources |-> doc_sources,
               retrieval_results |-> results,
               retries |-> s.retries,
               reasoning_steps |-> s.reasoning_steps \o head \o
                   (IF doc_sources # <<>> THEN <<"Found documents", "Sources">>
                    ELSE <<"Found documents">>) ]
        ELSE [ documents |-> <<>>,
               document_sources |-> <<>>,
               retrieval_results |-> <<>>,
               retries |-> s.retries,
               reasoning_steps |-> s.reasoning_steps \o head \o
                   <<"Retrieval error">> ]

\* search = [raised, results]: the hybrid_search call
retrieve_node(s, search) ==
    LET head == <<"Searching for">>
        results == search.results
        doc_sources == [i \in 1..Len(results) |->
                           <<GetOr(results[i].source, "Unknown"), " (",
                             GetOr(results[i].type, "text"), ")">>]
    IN  IF ~search.raised
        THEN [ documents |-> Contents(results),
               document_sources |-> doc_sources,
               retrieval_results |-> results,
               retries |-> s.retries,
               reasoning_steps |-> s.reasoning_steps \o head \o
                   (IF doc_sources # <<>> THEN <<"Found documents", "Sources">>
                    ELSE <<"Found documents">>) ]
        ELSE [ documents |-> <<>>,
               document_sources |-> <<>>,
               retrieval_results |-> <<>>,
               retries |-> s.retries + 1,
               reasoning_steps |-> s.reasoning_steps \o head \o
                   <<"Retrieval error">> ]

\* verdict of grade_node's loop body for one passage
GradeError(outcome) ==
    outcome.raised \/ ~parse_json_safe(outcome.text).isdict

\* variant: a passage whose grading failed is dropped
GradeKeeps_drop_on_error(outcome) ==
    IF GradeError(outcome) THEN FALSE
    ELSE parse_json_safe(outcome.text).score = "yes"

GradeKeeps(outcome) ==
    IF GradeError(outcome) THEN TRUE
    ELSE parse_json_safe(outcome.text).score = "yes"

\* the reasoning entry of one passage, cut to its constant prefix
GradeLine(outcome) == "Doc"

\* variant: the kept entries come out last first
RECURSIVE KeptFrom_reversed(_, _, _)
KeptFrom_reversed(list, keep, i) ==
    IF i > Len(keep) THEN <<>>
    ELSE KeptFrom_reversed(list, keep, i + 1)
         \o (IF keep[i] /\ i <= Len(list) THEN <<list[i]>> ELSE <<>>)

\* the entries of list whose index i <= Len(list) has keep[i]
RECURSIVE KeptFrom(_, _, _)
KeptFrom(list, keep, i) ==
    IF i > Len(keep) THEN <<>>
    ELSE (IF keep[i] /\ i <= Len(list) THEN <<list[i]>> ELSE <<>>)
         \o KeptFrom(list, keep, i + 1)

\* variant: a round in which no graded passage is kept is not counted
grade_node_no_count(s, outcomes) ==
    LET head == <<"Grading document relevance...">>
        keep == [i \in 1..Len(s.documents) |-> GradeKeeps(outcomes[i])]
    IN  IF s.documents = <<>>
        THEN [ documents |-> <<>>,
               retrieval_results |-> <<>>,
               retries |-> s.retries + 1,
               reasoning_steps |-> s.reasoning_steps \o head \o
                   <<"No documents to grade">> ]
        ELSE [ documents |-> KeptFrom(s.documents, keep, 1),
               retrieval_results |-> KeptFrom(s.retrieval_results, keep, 1),
               retries |-> s.retries,
               reasoning_steps |-> s.reasoning_steps \o head \o
                   [i \in 1..Len(s.documents) |-> GradeLine(outcomes[i])] \o
                   <<"documents passed">> ]

\* variant: the retrieval results are passed on unfiltered
grade_node_keeps_results(s, outcomes) ==
    LET head == <<"Grading document relevance...">>
        keep == [i \in 1..Len(s.documents) |-> GradeKeeps(outcomes[i])]
        relevant == KeptFrom(s.documents, keep, 1)
    IN  IF s.documents = <<>>
        THEN [ documents |-> <<>>,
               retrieval_results |-> <<>>,
               retries |-> s.retries + 1,
               reasoning_steps |-> s.reasoning_steps \o head \o
                   <<"No documents to grade">> ]
        ELSE [ documents |-> relevant,
               retrieval_results |-> s.retrieval_results,
               retries |-> IF relevant = <<>> THEN s.retries + 1 ELSE s.retries,
               reasoning_steps |-> s.reasoning_steps \o head \o
                   [i \in 1..Len(s.documents) |-> GradeLine(outcomes[i])] \o
                   <<"documents passed">> ]

\* outcomes[i] is the grader_chain call for documents[i]
grade_node(s, outcomes) ==
    LET head == <<"Grading document relevance...">>
        keep == [i \in 1..Len(s.documents) |-> GradeKeeps(outcomes[i])]
        relevant == KeptFrom(s.documents, keep, 1)
        relevant_results == KeptFrom(s.retrieval_results, keep, 1)
        new_retries == IF relevant = <<>> THEN s.retries + 1 ELSE s.retries
    IN  IF s.documents = <<>>
        THEN [ documents |-> <<>>,
               retrieval_results |-> <<>>,
               retries |-> s.retries + 1,
               reasoning_steps |-> s.reasoning_steps \o head \o
                   <<"No documents to grade">> ]
        ELSE [ documents |-> relevant,
               retrieval_results |-> relevant_results,
               retries |-> new_retries,
               reasoning_steps |-> s.reasoning_steps \o head \o
                   [i \in 1..Len(s.documents) |-> GradeLine(outcomes[i])] \o
                   <<"documents passed">> ]

\* llm = Raised or Returned(text): the rewriter_chain call
rewrite_node(s, llm) ==
    LET head == <<"Rewriting query for better results...">>
    IN  IF ~llm.raised
        THEN [ question |-> RemoveTok(Strip(llm.text), "\""),
               reasoning_steps |-> s.reasoning_steps \o head \o <<"New query">> ]
        ELSE [ question |-> s.question,
               reasoning_steps |-> s.reasoning_steps \o head \o
                   <<"Rewrite error, using original">> ]

GenerateErrorMessage(error) ==
    <<"I encountered an error while generating a response. Error: ">>
    \o Take(error, 100)

\* the context string generate_node assembles
\* a tool result dict: {} is <<>>, otherwise one record of its success and
\* error keys (NoKey when the key is missing)
ToolResult(success, error) == <<[success |-> success, error |-> error]>>

\* truth value of dict.get on a key holding True, False or nothing
Truthy(value) == value = "True"

\* tool = [available, raised, result]: self.tools has a tool for the domain,
\* execute_action raised, or the dict it returned
tool_execution_node(s, tool) ==
    LET head == <<"Executing tool action...">>
    IN  IF s.tool_calls = <<>>
        THEN [ tool_result |-> <<>>,
               reasoning_steps |-> s.reasoning_steps \o head \o
                   <<"No tool actions to execute">> ]
        ELSE IF ~tool.available
        THEN [ tool_result |-> ToolResult(NoKey, "No tool available"),
               reasoning_steps |-> s.reasoning_steps \o head \o
                   <<"No tool found for domain">> ]
        ELSE IF ~tool.raised
        THEN [ tool_result |-> tool.result,
               reasoning_steps |-> s.reasoning_steps \o head \o
                   <<"Executed", "Result">> ]
        ELSE [ tool_result |-> ToolResult("False", "boom"),
               reasoning_steps |-> s.reasoning_steps \o head \o
                   <<"Execution error">> ]

ToolTag == "\n\n== TOOL ACTION RESULT ==\n"

\* the context generate_node assembles for the rag_chain
GenerateContext(s) ==
    LET doc_context == IF s.documents # <<>> THEN Join(<<"\n\n">>, s.documents)
                       ELSE <<>>
        tool_context == IF s.tool_result # <<>> /\ Truthy(s.tool_result[1].success)
                        THEN <<ToolTag, "tool_result">>
                        ELSE <<>>
    IN  IF doc_context # <<>> /\ tool_context # <<>>
        THEN <<"Retrieved Information:\n">> \o doc_context \o tool_context
        ELSE IF tool_context # <<>> THEN <<"Action Result:">> \o tool_context
        ELSE IF doc_context # <<>> THEN doc_context
        ELSE <<"No relevant documents found.">>

\* llm = [raised, text]; text is the answer, or the error text when raised
generate_node(s, llm) ==
    LET head == <<"Generating answer...">>
    IN  IF ~llm.raised
        THEN [ generation |-> llm.text,
               should_store_memory |-> TRUE,
               reasoning_steps |-> s.reasoning_steps \o head \o <<"Generated chars">> ]
        ELSE [ generation |-> GenerateErrorMessage(llm.text),
               should_store_memory |-> FALSE,
               reasoning_steps |-> s.reasoning_steps \o head \o <<"Generation error">> ]

FailMessage ==
    <<"The requested information is ", "not available",
      " in the current documents. Please provide more specific details or try a different query.">>

\* variant: the fallback starts a new reasoning trail
graceful_fail_node_fresh_trail(s) ==
    [ generation |-> FailMessage,
      should_store_memory |-> FALSE,
      is_grounded |-> FALSE,
      reasoning_steps |-> <<"Max retries reached">> ]

graceful_fail_node(s) ==
    [ generation |-> FailMessage,
      should_store_memory |-> FALSE,
      is_grounded |-> FALSE,
      reasoning_steps |-> s.reasoning_steps \o <<"Max retries reached">> ]

\* variant: the phrases are looked for without lower-casing the answer
IsNotFoundResponse_case_sensitive(generation) ==
    \/ Contains(generation, <<"not available">>)
    \/ Contains(generation, <<"not present">>)

\* the fast path of reflection_node
IsNotFoundResponse(generation) ==
    \/ Contains(Lower(generation), <<"not available">>)
    \/ Contains(Lower(generation), <<"not present">>)

\* llm = Raised or Returned(raw text) of the grounding_chain
reflection_node(s, llm) ==
    LET head == <<"Verifying answer grounding...">>
        parsed_res == parse_json_safe(llm.text)
    IN  IF IsNotFoundResponse(s.generation)
        THEN [ is_grounded |-> FALSE,
               reasoning_steps |-> s.reasoning_steps \o head \o
                   <<"Information not found response detected">> ]
        ELSE IF ~llm.raised /\ parsed_res.isdict /\ parsed_res.score = "yes"
        THEN [ is_grounded |-> TRUE,
               reasoning_steps |-> s.reasoning_steps \o head \o
                   <<"Answer is grounded">> ]
        ELSE [ is_grounded |-> FALSE,
               generation |-> s.generation,
               reasoning_steps |-> s.reasoning_steps \o head \o
                   <<"Additional verification needed">> ]

(* --------------------------------------------------------- web enrichment *)
UrlTokens == {"https://a.example/x", "https://b.example/y"}
MaxFetch == 3

\* WebSearchTool.extract_hyperlinks: the distinct URLs of the text
extract_hyperlinks(text) == {text[i] : i \in 1..Len(text)} \cap UrlTokens

\* WebSearchTool.format_web_results over the fetch results, in fetch order
format_web_results(web_results) ==
    LET good == SelectSeq(web_results, LAMBDA r : r.success /\ r.content # <<>>)
        block(r) == <<"**Page Title:** ", r.title, "\n**URL:** ", r.url,
                      "\n**Page Content:**\n">> \o r.content \o <<"\n">>
    IN  Join(<<"\n\n">>, [i \in 1..Len(good) |-> block(good[i])])

\* variant: a failed extraction or fetch also discards the answer
web_search_node_drop_answer(s, web) ==
    [ generation |-> <<>>,
      web_search_results |-> <<>>,
      reasoning_steps |-> s.reasoning_steps \o
          <<"Searching for hyperlinks in answer...", "Web search failed">> ]

\* web = [raised, results, enhance]: extraction/fetching raised, or the fetch
\* results of the first MaxFetch URLs, and the outcome of the enhance chain
web_search_node(s, web) ==
    LET head == <<"Searching for hyperlinks in answer...">>
        current_answer == s.generation
        web_content == format_web_results(web.results)
    IN  IF web.raised
        THEN [ web_search_results |-> <<>>,
               reasoning_steps |-> s.reasoning_steps \o head \o
                   <<"Analyzing answer", "Web search failed">> ]
        ELSE IF current_answer = <<>>
        THEN [ web_search_results |-> <<>>,
               reasoning_steps |-> s.reasoning_steps \o head \o
                   <<"Analyzing answer", "No answer to search for hyperlinks">> ]
        ELSE IF Strip(web_content) = <<>>
        THEN [ web_search_results |-> <<>>,
               reasoning_steps |-> s.reasoning_steps \o head \o
                   <<"Analyzing answer",
                     "No hyperlinks found or web content unavailable">> ]
        ELSE IF ~web.enhance.raised
        THEN [ generation |-> web.enhance.text,
               web_search_results |-> web_content,
               reasoning_steps |-> s.reasoning_steps \o head \o
                   <<"Analyzing answer", "Found hyperlinks, fetched web content",
                     "Web content length", "Enhanced answer with web content">> ]
        ELSE [ generation |-> current_answer \o
                   <<"\n\n---\n**Additional Context from the Link:**\n">> \o
                   web_content,
               web_search_results |-> web_content,
               reasoning_steps |-> s.reasoning_steps \o head \o
                   <<"Analyzing answer", "Found hyperlinks, fetched web content",
                     "Web content length",
                     "Enhancement failed, appending web content">> ]

(* ---------------------------------------------------------- memory writer *)
\* variant: the question as last rewritten is what gets stored
WriterCall_rewritten(s) ==
    [ session_id |-> s.session_id,
      user_id |-> s.user_id,
      question |-> s.question,
      answer |-> s.generation,
      domain |-> s.domain,
      store_long_term |-> s.is_grounded,
      importance |-> IF s.is_grounded THEN 7 ELSE 4 ]

\* variant: every exchange is stored long-term with the higher importance
WriterCall_always_long_term(s) ==
    [ session_id |-> s.session_id,
      user_id |-> s.user_id,
      question |-> s.original_question,
      answer |-> s.generation,
      domain |-> s.domain,
      store_long_term |-> TRUE,
      importance |-> 7 ]

\* the arguments memory_storage_node passes to MemoryManager.add_exchange
WriterCall(s) ==
    [ session_id |-> s.session_id,
      user_id |-> s.user_id,
      question |-> s.original_question,
      answer |-> s.generation,
      domain |-> s.domain,
      store_long_term |-> s.is_grounded,
      importance |-> IF s.is_grounded THEN 7 ELSE 4 ]   \* tenths: 0.7 / 0.4

\* ShortTermMemory.add_exchange on the whole store
st_add_exchange(store, call) ==
    LET key == _get_key(call.session_id, call.user_id)
        old == IF key \in DOMAIN store THEN store[key] ELSE <<>>
        new == StoreAppend(old, Exchange(call.question, call.answer, call.domain))
    IN  [k \in DOMAIN store \cup {key} |-> IF k = key THEN new ELSE store[k]]

\* variant: the decoded texts keep their escapes
json_loads_no_unescape(data) == data

\* json.dumps / json.loads on a list of exchanges: a quotation mark or a
\* backslash inside a text is written with a backslash before it
json_dumps(exchanges) ==
    LET escape(text) == [i \in 1..Len(text) |->
                            CASE text[i] = "\"" -> "\\\""
                              [] text[i] = "\\" -> "\\\\"
                              [] OTHER -> text[i]]
    IN  [i \in 1..Len(exchanges) |->
            [ question |-> escape(exchanges[i].question),
              answer |-> escape(exchanges[i].answer),
              domain |-> exchanges[i].domain ]]

json_loads(data) ==
    LET unescape(text) == [i \in 1..Len(text) |->
                              CASE text[i] = "\\\"" -> "\""
                                [] text[i] = "\\\\" -> "\\"
                                [] OTHER -> text[i]]
    IN  [i \in 1..Len(data) |->
            [ question |-> unescape(data[i].question),
              answer |-> unescape(data[i].answer),
              domain |-> data[i].domain ]]

\* ShortTermMemory.add_exchange, Redis branch: store maps a key to the JSON
\* text SETEX wrote; a key GET finds nothing under is not in its domain
redis_add_exchange(store, call) ==
    LET key == _get_key(call.session_id, call.user_id)
        exchanges == IF key \in DOMAIN store THEN json_loads(store[key]) ELSE <<>>
        appended == Append(exchanges, Exchange(call.question, call.answer, call.domain))
        cut == IF Len(appended) > max_exchanges THEN LastN(appended, max_exchanges)
               ELSE appended
    IN  [k \in DOMAIN store \cup {key} |-> IF k = key THEN json_dumps(cut) ELSE store[k]]

\* ShortTermMemory.get_history, Redis branch
redis_get_history(store, session_id, user_id, n) ==
    LET key == _get_key(session_id, user_id)
        m == IF n = 0 THEN max_exchanges ELSE n
    IN  IF key \in DOMAIN store THEN LastN(json_loads(store[key]), m) ELSE <<>>

\* ShortTermMemory.clear_session: DELETE key, or del self._memory_store[key]
\* when the key is there
clear_session(store, session_id, user_id) ==
    LET key == _get_key(session_id, user_id)
    IN  [k \in DOMAIN store \ {key} |-> store[k]]

\* long_term.store_conversation
lt_store_conversation(memories, call) ==
    Append(memories, [ user_id |-> call.user_id, question |-> call.question,
                       answer |-> call.answer, domain |-> call.domain,
                       importance |-> call.importance ])

memory_storage_node(s) ==
    [ reasoning_steps |-> s.reasoning_steps \o
          (IF s.should_store_memory
           THEN <<"Storing to memory...", "Memory stored">>
           ELSE <<"Storing to memory...", "Skipped (not storing)">>) ]

(* ----------------------------------------------------------------- edges *)
\* variant: the page test comes first
route_by_question_type_page_first(s) ==
    IF s.is_page_question THEN "page_retrieve"
    ELSE IF s.is_memory_question THEN "memory_answer"
    ELSE "tool_detection"

route_by_question_type(s) ==
    IF s.is_memory_question THEN "memory_answer"
    ELSE IF s.is_page_question THEN "page_retrieve"
    ELSE "tool_detection"

\* variant: the retry budget is never consulted
check_relevance_no_budget(s) ==
    IF s.documents # <<>> THEN "generate" ELSE "rewrite"

\* variant: an exhausted budget grades again instead of failing
check_relevance_regrade(s) ==
    IF s.documents # <<>> THEN "generate"
    ELSE IF s.retries > 2 THEN "grade"
    ELSE "rewrite"

\* variant: the budget test is off by one
check_relevance_off_by_one(s) ==
    IF s.documents # <<>> THEN "generate"
    ELSE IF s.retries > 3 THEN "fail"
    ELSE "rewrite"

\* variant: an exhausted budget answers without passages instead of failing
check_relevance_answer_anyway(s) ==
    IF s.documents # <<>> THEN "generate"
    ELSE IF s.retries > 2 THEN "generate"
    ELSE "rewrite"

check_relevance(s) ==
    IF s.documents # <<>> THEN "generate"
    ELSE IF s.retries > 2 THEN "fail"
    ELSE "rewrite"

\* variant: an ungrounded answer goes back into the retry loop
NextNode_reflect_retries(node, s) ==
    CASE node = "memory_retrieval"      -> "check_memory_question"
      [] node = "check_memory_question" -> route_by_question_type(s)
      [] node = "memory_answer"         -> "memory_storage"
      [] node = "page_retrieve"         -> "page_answer"
      [] node = "page_answer"           -> "memory_storage"
      [] node = "tool_detection"        -> "retrieve"
      [] node = "retrieve"              -> "grade"
      [] node = "grade"                 -> check_relevance(s)
      [] node = "rewrite"               -> "retrieve"
      [] node = "generate"              -> "reflect"
      [] node = "reflect"               -> IF s.is_grounded THEN "web_search"
                                           ELSE "rewrite"
      [] node = "web_search"            -> "memory_storage"
      [] node = "memory_storage"        -> "END"
      [] node = "fail"                  -> "END"

\* variant: tool_detection hands over to tool_execution
NextNode_runs_tool(node, s) ==
    CASE node = "memory_retrieval"      -> "check_memory_question"
      [] node = "check_memory_question" -> route_by_question_type(s)
      [] node = "memory_answer"         -> "memory_storage"
      [] node = "page_retrieve"         -> "page_answer"
      [] node = "page_answer"           -> "memory_storage"
      [] node = "tool_detection"        -> IF s.tool_calls # <<>> THEN "tool_execution"
                                           ELSE "retrieve"
      [] node = "retrieve"              -> "grade"
      [] node = "grade"                 -> check_relevance(s)
      [] node = "rewrite"               -> "retrieve"
      [] node = "generate"              -> "reflect"
      [] node = "reflect"               -> "web_search"
      [] node = "web_search"            -> "memory_storage"
      [] node = "memory_storage"        -> "END"
      [] node = "fail"                  -> "END"

\* variant: fail hands over to memory_storage
NextNode_fail_stores(node, s) ==
    CASE node = "memory_retrieval"      -> "check_memory_question"
      [] node = "check_memory_question" -> route_by_question_type(s)
      [] node = "memory_answer"         -> "memory_storage"
      [] node = "page_retrieve"         -> "page_answer"
      [] node = "page_answer"           -> "memory_storage"
      [] node = "tool_detection"        -> "retrieve"
      [] node = "retrieve"              -> "grade"
      [] node = "grade"                 -> check_relevance(s)
      [] node = "rewrite"               -> "retrieve"
      [] node = "generate"              -> "reflect"
      [] node = "reflect"               -> "web_search"
      [] node = "web_search"            -> "memory_storage"
      [] node = "memory_storage"        -> "END"
      [] node = "fail"                  -> "memory_storage"

\* add_edge / add_conditional_edges of _build_graph
NextNode(node, s) ==
    CASE node = "memory_retrieval"      -> "check_memory_question"
      [] node = "check_memory_question" -> route_by_question_type(s)
      [] node = "memory_answer"         -> "memory_storage"
      [] node = "page_retrieve"         -> "page_answer"
      [] node = "page_answer"           -> "memory_storage"
      [] node = "tool_detection"        -> "retrieve"
      [] node = "retrieve"              -> "grade"
      [] node = "grade"                 -> check_relevance(s)
      [] node = "rewrite"               -> "retrieve"
      [] node = "generate"              -> "reflect"
      [] node = "reflect"               -> "web_search"
      [] node = "web_search"            -> "memory_storage"
      [] node = "memory_storage"        -> "END"
      [] node = "fail"                  -> "END"

(* ------------------------------------------------- inputs and environment *)
Questions ==
    { <<"how do i reset", " ", "my password">>,
      <<"Summarize", " ", "what we", " ", "discussed">>,
      <<"what's on", " ", "page", " ", "7", "?">>,
      <<"Recap", " ", "page", " ", "2">>,
      <<"show the", " ", "2", "nd", " ", "page">> }

PriorExchange == Exchange(<<"what is vpn">>, <<"vpn is a tunnel">>, Domain)

PriorMemory ==
    [ user_id |-> UserId, question |-> <<"what is vpn">>,
      answer |-> <<"vpn is a tunnel">>, domain |-> Domain, importance |-> 7 ]

EmptyStore == [k \in {} |-> <<>>]
PriorStore == [k \in {_get_key(SessionId, UserId)} |-> <<PriorExchange>>]

\* the memory manager a request can meet: nothing stored and no long-term
\* backend, or one earlier exchange stored in both memories
Environments ==
    { [short |-> EmptyStore, has_long_term |-> FALSE, long |-> <<>>],
      [short |-> EmptyStore, has_long_term |-> TRUE, long |-> <<>>],
      [short |-> PriorStore, has_long_term |-> TRUE, long |-> <<PriorMemory>>] }

\* ranked passages of the document index, best first
Ranking ==
    << [content |-> <<"vpn setup guide">>, source |-> "kb.pdf", type |-> "text"],
       [content |-> <<>>, source |-> NoKey, type |-> NoKey],
       [content |-> <<"password rules">>, source |-> "it.pdf", type |-> "vision"],
       [content |-> <<"vpn setup guide">>, source |-> "kb2.pdf", type |-> "text"] >>

\* hybrid_search finds nothing, or the MaxDocs best passages
ResultLists == {<<>>, SubSeq(Ranking, 1, MaxDocs)}

SearchOutcomes ==
    {[raised |-> TRUE, results |-> <<>>]}
    \cup {[raised |-> FALSE, results |-> r] : r \in ResultLists}

PageChunks ==
    << [content |-> <<"page chunk one">>, source |-> "kb.pdf", type |-> "vision"],
       [content |-> <<"page chunk two">>, source |-> NoKey, type |-> "vision"] >>

EngineOutcomes ==
    { [raised |-> TRUE, page |-> <<>>, search |-> <<>>],
      [raised |-> FALSE, page |-> <<>>, search |-> <<>>],
      [raised |-> FALSE, page |-> PageChunks, search |-> <<>>],
      [raised |-> FALSE, page |-> <<>>, search |-> SubSeq(PageChunks, 2, 2)] }

RewriterOutcomes ==
    { Raised,
      Returned(<<" ", "\"", "password reset steps", "\"", "\n">>) }

AnswerTexts ==
    { <<"restart the router">>,
      <<"this detail is ", "Not Available", " in the guide">>,
      <<"see ", "https://a.example/x", " for the steps">> }

AnswerOutcomes ==
    {[raised |-> TRUE, text |-> <<"rate limit exceeded">>]}
    \cup {Returned(t) : t \in AnswerTexts}

VerifierOutcomes ==
    { Raised,
      Returned(<<"{\"score\": \"yes\"}">>),
      Returned(<<"{\"score\": \"no\"}">>),
      Returned(<<"1">>) }

\* WebFetcher results for one URL
FetchResults(url) ==
    { [url |-> url, success |-> TRUE, title |-> "Steps", content |-> <<"step one">>],
      [url |-> url, success |-> FALSE, title |-> "", content |-> <<>>] }

EnhanceOutcomes == {Raised, Returned(<<"enhanced answer">>)}

\* every order list(set(...)) can give the URLs, cut to the first MaxFetch
RECURSIVE Orderings(_)
Orderings(set) ==
    IF set = {} THEN {<<>>}
    ELSE UNION {{<<u>> \o rest : rest \in Orderings(set \ {u})} : u \in set}

FetchLists(text) ==
    {Take(o, MaxFetch) : o \in Orderings(extract_hyperlinks(text))}

\* all result lists search_web_content can return for the URL list
RECURSIVE FetchAll(_)
FetchAll(urls) ==
    IF urls = <<>> THEN {<<>>}
    ELSE {<<r>> \o rest : r \in FetchResults(Head(urls)), rest \in FetchAll(Tail(urls))}

WebOutcomes(text) ==
    {[raised |-> TRUE, results |-> <<>>, enhance |-> Raised]}
    \cup {[raised |-> FALSE, results |-> rs, enhance |-> e] :
            rs \in UNION {FetchAll(urls) : urls \in FetchLists(text)},
            e \in EnhanceOutcomes}

(* ------------------------------------------------------------- the system *)
VARIABLES
    state,          \* the AgentState threaded through the graph
    pc,             \* the node to run next, "END", or "RAISED"
    trace,          \* the nodes executed so far, in order
    short_store,    \* ShortTermMemory: key -> list of exchanges
    long_store,     \* long-term memory: list of stored conversations
    has_long_term,  \* MemoryManager.long_term is not None
    writer_calls,   \* the add_exchange calls made by the request
    last_grade,     \* what the Grade node that has just run saw and kept
    last_verify,    \* what the Reflect node that has just run asked the verifier
    use_redis,      \* ShortTermMemory.use_redis
    calls,          \* thread -> the add_exchange call it is executing
    returned,       \* the threads whose add_exchange has returned, in order
    context,        \* what the reader's get_context returned
    redis_store,    \* the Redis server: key -> JSON text of the exchanges
    stm_calls,      \* key -> add_exchange calls made: ever, and since its last clear
    last_op         \* the ShortTermMemory call made last, and its key

vars == <<state, pc, trace, short_store, long_store, has_long_term,
          writer_calls, last_grade, last_verify, use_redis, calls, returned,
          context, redis_store, stm_calls, last_op>>

\* threads of the server calling the memory manager at the same time
Threads == {1, 2}

\* a thread that has not called add_exchange
IdleCall ==
    [ pc |-> "idle", session_id |-> "", user_id |-> "", question |-> <<>>,
      answer |-> <<>>, domain |-> "", store_long_term |-> FALSE,
      importance |-> 0, exchanges |-> <<>>, began_after |-> {} ]

\* the reader has not called get_context
NoContext ==
    [ read |-> FALSE, session_id |-> "", short_term |-> <<>>,
      long_term |-> <<>>, after |-> <<>>, in_flight |-> {} ]

\* the memory manager is used by one request only
MemoryIdle ==
    /\ use_redis = FALSE
    /\ calls = [t \in Threads |-> IdleCall]
    /\ returned = <<>>
    /\ context = NoContext

\* the (user_id, session_id) pairs ShortTermMemory is called with
StmKeys ==
    { [user_id |-> UserId, session_id |-> SessionId],
      [user_id |-> UserId, session_id |-> "s2"],
      [user_id |-> "u2", session_id |-> SessionId] }

\* ShortTermMemory has not been called directly
StmIdle ==
    /\ redis_store = EmptyStore
    /\ stm_calls = [k \in StmKeys |-> [adds |-> 0, since |-> 0]]
    /\ last_op = [op |-> "none", key |-> [user_id |-> "", session_id |-> ""]]

Nodes == { "memory_retrieval", "check_memory_question", "memory_answer",
           "page_retrieve", "page_answer", "tool_detection", "retrieve",
           "grade", "rewrite", "generate", "reflect", "web_search",
           "memory_storage", "fail" }

\* last_grade when the node that has just run is not Grade
NoGrade == [ran |-> FALSE, retries_in |-> 0, docs_in |-> <<>>, errors |-> {}, yes |-> {}]

\* the grounding_chain was not invoked
NotCalled == [raised |-> FALSE, text |-> <<"<not called>">>]

\* last_verify when the node that has just run is not Reflect
NoVerify == [ran |-> FALSE, called |-> FALSE, outcome |-> NotCalled]

Init ==
    /\ \E q \in Questions : state = InitialState(q)
    /\ \E env \in Environments :
          /\ short_store = env.short
          /\ long_store = env.long
          /\ has_long_term = env.has_long_term
    /\ pc = "memory_retrieval"
    /\ trace = <<>>
    /\ writer_calls = <<>>
    /\ last_grade = NoGrade
    /\ last_verify = NoVerify
    /\ MemoryIdle
    /\ StmIdle

\* one node ran and returned update: merge it and follow the outgoing edge
Step(node, update) ==
    /\ pc = node
    /\ Len(trace) < MaxSteps
    /\ state' = Merge(state, update)
    /\ pc' = NextNode(node, Merge(state, update))
    /\ trace' = Append(trace, node)
    /\ UNCHANGED <<use_redis, calls, returned, context,
                 redis_store, stm_calls, last_op>>

Env == <<short_store, long_store, has_long_term>>

MemoryRetrieval ==
    /\ \E raised \in BOOLEAN :
          LET memories == LastN(long_store, long_term_n)
              ctx == get_context(short_store, has_long_term, memories,
                                 state.session_id, state.user_id)
          IN  Step("memory_retrieval",
                   memory_retrieval_node(state,
                       [raised |-> raised, short_term |-> ctx.short_term,
                        long_term |-> ctx.long_term]))
    /\ last_grade' = NoGrade /\ last_verify' = NoVerify /\ UNCHANGED <<Env, writer_calls>>

Classify ==
    /\ Step("check_memory_question", check_memory_question_node(state))
    /\ last_grade' = NoGrade /\ last_verify' = NoVerify /\ UNCHANGED <<Env, writer_calls>>

MemoryAnswer ==
    /\ \E llm \in AnswerOutcomes : Step("memory_answer", memory_answer_node(state, llm))
    /\ last_grade' = NoGrade /\ last_verify' = NoVerify /\ UNCHANGED <<Env, writer_calls>>

PageRetrieve ==
    /\ \E engine \in EngineOutcomes :
          Step("page_retrieve", page_retrieve_node(state, engine))
    /\ last_grade' = NoGrade /\ last_verify' = NoVerify /\ UNCHANGED <<Env, writer_calls>>

PageAnswer ==
    /\ \E llm \in AnswerOutcomes : Step("page_answer", page_answer_node(state, llm))
    /\ last_grade' = NoGrade /\ last_verify' = NoVerify /\ UNCHANGED <<Env, writer_calls>>

ToolDetect ==
    /\ \E llm \in ToolOutcomes : Step("tool_detection", tool_detection_node(state, llm))
    /\ last_grade' = NoGrade /\ last_verify' = NoVerify /\ UNCHANGED <<Env, writer_calls>>

Retrieve ==
    /\ \E search \in SearchOutcomes : Step("retrieve", retrieve_node(state, search))
    /\ last_grade' = NoGrade /\ last_verify' = NoVerify /\ UNCHANGED <<Env, writer_calls>>

Grade ==
    /\ \E outcomes \in [1..Len(state.documents) -> GraderOutcomes] :
          /\ Step("grade", grade_node(state, outcomes))
          /\ last_grade' =
                [ ran |-> TRUE,
                  retries_in |-> state.retries,
                  docs_in |-> state.documents,
                  errors |-> {i \in 1..Len(state.documents) : outcomes[i].raised},
                  yes |-> {i \in 1..Len(state.documents) :
                              ~GradeError(outcomes[i]) /\ GradeKeeps(outcomes[i])} ]
    /\ last_verify' = NoVerify
    /\ UNCHANGED <<Env, writer_calls>>

Rewrite ==
    /\ \E llm \in RewriterOutcomes : Step("rewrite", rewrite_node(state, llm))
    /\ last_grade' = NoGrade /\ last_verify' = NoVerify /\ UNCHANGED <<Env, writer_calls>>

Generate ==
    /\ \E llm \in AnswerOutcomes : Step("generate", generate_node(state, llm))
    /\ last_grade' = NoGrade /\ last_verify' = NoVerify /\ UNCHANGED <<Env, writer_calls>>

Fail ==
    /\ Step("fail", graceful_fail_node(state))
    /\ last_grade' = NoGrade /\ last_verify' = NoVerify /\ UNCHANGED <<Env, writer_calls>>

\* the verifier is invoked only past the early return of reflection_node
Reflect ==
    /\ \E llm \in (IF IsNotFoundResponse(state.generation) THEN {NotCalled}
                   ELSE VerifierOutcomes) :
          /\ Step("reflect", reflection_node(state, llm))
          /\ last_verify' = [ran |-> TRUE, called |-> llm # NotCalled,
                             outcome |-> llm]
    /\ last_grade' = NoGrade /\ UNCHANGED <<Env, writer_calls>>

WebSearch ==
    /\ \E web \in WebOutcomes(state.generation) :
          Step("web_search", web_search_node(state, web))
    /\ last_grade' = NoGrade /\ last_verify' = NoVerify /\ UNCHANGED <<Env, writer_calls>>

\* memory_storage_node returns normally: nothing to store, or add_exchange worked
MemoryStorage ==
    /\ Step("memory_storage", memory_storage_node(state))
    /\ IF state.should_store_memory
       THEN LET call == WriterCall(state)
            IN  /\ writer_calls' = Append(writer_calls, call)
                /\ short_store' = st_add_exchange(short_store, call)
                /\ long_store' = IF call.store_long_term /\ has_long_term
                                 THEN lt_store_conversation(long_store, call)
                                 ELSE long_store
       ELSE UNCHANGED <<writer_calls, short_store, long_store>>
    /\ last_grade' = NoGrade /\ last_verify' = NoVerify /\ UNCHANGED has_long_term

\* add_exchange raises inside memory_storage_node, which has no handler: the
\* exception leaves the node and the graph.  The short-term write comes first,
\* so a failure of the long-term write leaves the short-term one in place.
MemoryStorageRaises ==
    /\ pc = "memory_storage"
    /\ Len(trace) < MaxSteps
    /\ state.should_store_memory
    /\ LET call == WriterCall(state)
       IN  /\ writer_calls' = Append(writer_calls, call)
           /\ \/ UNCHANGED short_store
              \/ /\ call.store_long_term /\ has_long_term
                 /\ short_store' = st_add_exchange(short_store, call)
    /\ pc' = "RAISED"
    /\ trace' = Append(trace, "memory_storage")
    /\ last_grade' = NoGrade /\ last_verify' = NoVerify /\ UNCHANGED <<state, long_store, has_long_term>>
    /\ UNCHANGED <<use_redis, calls, returned, context,
                 redis_store, stm_calls, last_op>>

Next ==
    \/ MemoryRetrieval
    \/ Classify
    \/ MemoryAnswer
    \/ PageRetrieve
    \/ PageAnswer
    \/ ToolDetect
    \/ Retrieve
    \/ Grade
    \/ Rewrite
    \/ Generate
    \/ Fail
    \/ Reflect
    \/ WebSearch
    \/ MemoryStorage
    \/ MemoryStorageRaises

Spec == Init /\ [][Next]_vars

\* the elements of a list
Range(seq) == {seq[i] : i \in 1..Len(seq)}

(* ------------------------------------- the memory manager under threads *)
\* text of n tokens
LongText(n) == [i \in 1..n |-> "x"]

\* what the threads store: texts within and beyond the cuts of format_for_prompt
WriterSessions(t) == IF t = 1 THEN {SessionId} ELSE {SessionId, "s2"}
WriterQuestions(t) ==
    IF t = 1 THEN {<<"first question">>, LongText(QuestionCut + 1)}
    ELSE {<<"second question">>}
WriterAnswers(t) ==
    IF t = 1 THEN {<<"first answer">>, LongText(AnswerCut + 1)}
    ELSE {<<"second answer">>}

\* the exchange dict add_exchange builds for the call of thread t
ExchangeOf(call) == Exchange(call.question, call.answer, call.domain)

\* the main request is not running: the server threads use the manager directly
MemInit ==
    /\ state = InitialState(<<"first question">>)
    /\ pc = "MEMORY"
    /\ trace = <<>>
    /\ writer_calls = <<>>
    /\ last_grade = NoGrade
    /\ last_verify = NoVerify
    /\ \E env \in Environments :
          /\ short_store = env.short
          /\ long_store = env.long
          /\ has_long_term = env.has_long_term
    /\ use_redis \in BOOLEAN
    /\ calls = [t \in Threads |-> IdleCall]
    /\ returned = <<>>
    /\ context = NoContext
    /\ StmIdle

MainIdle == UNCHANGED <<state, pc, trace, writer_calls, last_grade, last_verify,
                        has_long_term, use_redis, redis_store, stm_calls,
                        last_op>>

\* MemoryManager.add_exchange is entered and ShortTermMemory.add_exchange
\* builds its exchange dict
AddExchangeBegin(t) ==
    /\ calls[t].pc = "idle"
    /\ \E sid \in WriterSessions(t), q \in WriterQuestions(t),
          a \in WriterAnswers(t), grounded \in (IF t = 1 THEN BOOLEAN ELSE {FALSE}) :
          calls' = [calls EXCEPT ![t] =
                       [ pc |-> IF use_redis THEN "get" ELSE "check",
                         session_id |-> sid, user_id |-> UserId,
                         question |-> q, answer |-> a, domain |-> Domain,
                         store_long_term |-> grounded,
                         importance |-> IF grounded THEN 7 ELSE 4,
                         exchanges |-> <<>>,
                         began_after |-> Range(returned) ]]
    /\ MainIdle /\ UNCHANGED <<short_store, long_store, returned, context>>

\* Redis branch: read the key, append to the local list, cut to max_exchanges
RedisGet(t) ==
    /\ calls[t].pc = "get"
    /\ LET key == _get_key(calls[t].session_id, calls[t].user_id)
           data == IF key \in DOMAIN short_store THEN short_store[key] ELSE <<>>
       IN  calls' = [calls EXCEPT ![t].exchanges = StoreAppend(data, ExchangeOf(calls[t])),
                                  ![t].pc = "setex"]
    /\ MainIdle /\ UNCHANGED <<short_store, long_store, returned, context>>

\* Redis branch: write the local list back
RedisSetex(t) ==
    /\ calls[t].pc = "setex"
    /\ LET key == _get_key(calls[t].session_id, calls[t].user_id)
       IN  short_store' = [k \in DOMAIN short_store \cup {key} |->
                              IF k = key THEN calls[t].exchanges ELSE short_store[k]]
    /\ calls' = [calls EXCEPT ![t].pc = "long_term"]
    /\ MainIdle /\ UNCHANGED <<long_store, returned, context>>

\* in-memory branch: key not in self._memory_store
MemCheck(t) ==
    /\ calls[t].pc = "check"
    /\ LET key == _get_key(calls[t].session_id, calls[t].user_id)
       IN  calls' = [calls EXCEPT ![t].pc =
                        IF key \notin DOMAIN short_store THEN "create" ELSE "append"]
    /\ MainIdle /\ UNCHANGED <<short_store, long_store, returned, context>>

\* in-memory branch: self._memory_store[key] = deque(maxlen=max_exchanges)
MemCreate(t) ==
    /\ calls[t].pc = "create"
    /\ LET key == _get_key(calls[t].session_id, calls[t].user_id)
       IN  short_store' = [k \in DOMAIN short_store \cup {key} |->
                              IF k = key THEN <<>> ELSE short_store[k]]
    /\ calls' = [calls EXCEPT ![t].pc = "append"]
    /\ MainIdle /\ UNCHANGED <<long_store, returned, context>>

\* in-memory branch: self._memory_store[key].append(exchange)
MemAppend(t) ==
    /\ calls[t].pc = "append"
    /\ LET key == _get_key(calls[t].session_id, calls[t].user_id)
       IN  short_store' = [short_store EXCEPT
                              ![key] = StoreAppend(@, ExchangeOf(calls[t]))]
    /\ calls' = [calls EXCEPT ![t].pc = "long_term"]
    /\ MainIdle /\ UNCHANGED <<long_store, returned, context>>

\* back in MemoryManager.add_exchange: the optional long-term write, then return
LongTermStore(t) ==
    /\ calls[t].pc = "long_term"
    /\ long_store' = IF calls[t].store_long_term /\ has_long_term
                     THEN lt_store_conversation(long_store, calls[t])
                     ELSE long_store
    /\ calls' = [calls EXCEPT ![t].pc = "returned"]
    /\ returned' = Append(returned, t)
    /\ MainIdle /\ UNCHANGED <<short_store, context>>

\* the reader's one get_context call
GetContext ==
    /\ pc = "MEMORY"
    /\ ~context.read
    /\ \E sid \in {SessionId, "s2"} :
          LET ctx == get_context(short_store, has_long_term,
                                 LastN(long_store, long_term_n), sid, UserId)
          IN  context' = [ read |-> TRUE, session_id |-> sid,
                           short_term |-> ctx.short_term,
                           long_term |-> ctx.long_term,
                           after |-> returned,
                           in_flight |-> {t \in Threads :
                                            calls[t].pc \notin {"idle", "returned"}} ]
    /\ MainIdle /\ UNCHANGED <<short_store, long_store, calls, returned>>

MemNext ==
    \/ \E t \in Threads : AddExchangeBegin(t)
    \/ \E t \in Threads : RedisGet(t)
    \/ \E t \in Threads : RedisSetex(t)
    \/ \E t \in Threads : MemCheck(t)
    \/ \E t \in Threads : MemCreate(t)
    \/ \E t \in Threads : MemAppend(t)
    \/ \E t \in Threads : LongTermStore(t)
    \/ GetContext

MemSpec == MemInit /\ [][MemNext]_vars


(* --------------------------- tool_execution_node followed by generate_node *)
\* tool_execution_node is defined in _build_graph but no add_node or add_edge
\* names it, so no run of the graph reaches it; here the two node functions are
\* applied one after the other, generate_node to the state tool_execution_node
\* returned.
ToolExecOutcomes ==
    { [available |-> FALSE, raised |-> FALSE, result |-> <<>>],
      [available |-> TRUE, raised |-> TRUE, result |-> <<>>],
      [available |-> TRUE, raised |-> FALSE, result |-> ToolResult("True", NoKey)],
      [available |-> TRUE, raised |-> FALSE,
       result |-> ToolResult("False", "Unknown action")] }

DetectedCalls == {<<>>, <<Dict(NoKey, "create_ticket")>>}

GenInit ==
    /\ \E q \in Questions, n \in 0..2, tc \in DetectedCalls :
          state = Merge(InitialState(q),
                        [ documents |-> Contents(SubSeq(Ranking, 1, n)),
                          retrieval_results |-> SubSeq(Ranking, 1, n),
                          tool_calls |-> tc ])
    /\ pc = "tool_execution"
    /\ trace = <<>>
    /\ writer_calls = <<>>
    /\ last_grade = NoGrade
    /\ last_verify = NoVerify
    /\ short_store = EmptyStore
    /\ long_store = <<>>
    /\ has_long_term = FALSE
    /\ MemoryIdle
    /\ StmIdle

ToolExecution ==
    /\ pc = "tool_execution"
    /\ \E tool \in ToolExecOutcomes :
          state' = Merge(state, tool_execution_node(state, tool))
    /\ pc' = "generate"
    /\ trace' = Append(trace, "tool_execution")
    /\ last_grade' = NoGrade /\ last_verify' = NoVerify
    /\ UNCHANGED <<Env, writer_calls, use_redis, calls, returned, context,
                 redis_store, stm_calls, last_op>>

GenNext ==
    \/ ToolExecution
    \/ Generate

GenSpec == GenInit /\ [][GenNext]_vars

(* ------------------ ShortTermMemory called in sequence, on both backends *)
\* One caller makes add_exchange and clear_session calls one after the other.
\* Every call is made on an in-memory ShortTermMemory (short_store) and on a
\* Redis-backed one (redis_store), so the two can be compared call by call.
MaxAdds == 12        \* add_exchange calls on the first key (> max_exchanges)
MaxOtherAdds == 2    \* add_exchange calls on each other key

FirstKey == [user_id |-> UserId, session_id |-> SessionId]

\* the n-th add_exchange call on key k: its question opens with a quotation
\* mark and has n more tokens, its answer names the key
StmCall(k, n) ==
    [ session_id |-> k.session_id, user_id |-> k.user_id,
      question |-> <<"\"">> \o [j \in 1..n |-> "q"],
      answer |-> <<"answer for ", k.user_id, k.session_id>>,
      domain |-> Domain ]

StmInit ==
    /\ state = InitialState(<<"first question">>)
    /\ pc = "STM"
    /\ trace = <<>>
    /\ writer_calls = <<>>
    /\ last_grade = NoGrade
    /\ last_verify = NoVerify
    /\ short_store = EmptyStore
    /\ long_store = <<>>
    /\ has_long_term = FALSE
    /\ MemoryIdle
    /\ StmIdle

\* ShortTermMemory.add_exchange(k.session_id, k.user_id, ...)
AddExchange(k) ==
    /\ pc = "STM"
    /\ stm_calls[k].adds < (IF k = FirstKey THEN MaxAdds ELSE MaxOtherAdds)
    /\ LET call == StmCall(k, stm_calls[k].adds + 1)
       IN  /\ short_store' = st_add_exchange(short_store, call)
           /\ redis_store' = redis_add_exchange(redis_store, call)
    /\ stm_calls' = [stm_calls EXCEPT ![k] = [adds |-> @.adds + 1, since |-> @.since + 1]]
    /\ last_op' = [op |-> "add_exchange", key |-> k]
    /\ UNCHANGED <<state, pc, trace, writer_calls, last_grade, last_verify,
                   long_store, has_long_term, use_redis, calls, returned, context>>

\* ShortTermMemory.clear_session(k.session_id, k.user_id)
ClearSession(k) ==
    /\ pc = "STM"
    /\ short_store' = clear_session(short_store, k.session_id, k.user_id)
    /\ redis_store' = clear_session(redis_store, k.session_id, k.user_id)
    /\ stm_calls' = [stm_calls EXCEPT ![k].since = 0]
    /\ last_op' = [op |-> "clear_session", key |-> k]
    /\ UNCHANGED <<state, pc, trace, writer_calls, last_grade, last_verify,
                   long_store, has_long_term, use_redis, calls, returned, context>>

StmNext ==
    \/ \E k \in StmKeys : AddExchange(k)
    \/ \E k \in StmKeys : ClearSession(k)

StmSpec == StmInit /\ [][StmNext]_vars

(* ----------------------------------------------------------------- invoke *)
\* the text str(e) of an exception that left the graph
ExceptionText == "<exception text>"

\* what invoke hands to its caller: a result record, or the exception it lets through
InvokeReturned(record) == [raised |-> FALSE, result |-> record]
InvokeRaised == [raised |-> TRUE, result |-> <<>>]

\* variant: invoke has no handler around the graph
invoke_no_handler(outcome, s) ==
    IF outcome = "RAISED" THEN InvokeRaised
    ELSE InvokeReturned(
           [ answer |-> s.generation,
             is_grounded |-> s.is_grounded,
             tool_calls |-> s.tool_calls,
             tool_result |-> s.tool_result,
             reasoning_steps |-> s.reasoning_steps,
             documents |-> s.documents,
             document_sources |-> s.document_sources,
             web_search_results |-> s.web_search_results ])

\* ByteMeAgent.invoke after self.app.invoke: outcome = "END" when the graph
\* returned the final state s, "RAISED" when an exception left the graph
invoke(outcome, s) ==
    LET retrieval_results == s.retrieval_results
        doc_info(i) ==
            IF i <= Len(retrieval_results)
            THEN [ content |-> s.documents[i],
                   source |-> GetOr(retrieval_results[i].source, "Unknown"),
                   type |-> GetOr(retrieval_results[i].type, "text") ]
            ELSE [ content |-> s.documents[i], source |-> "Unknown", type |-> "text" ]
        processed_docs == [i \in 1..Len(s.documents) |-> doc_info(i)]
    IN  IF outcome = "RAISED"
        THEN InvokeReturned(
               [ answer |-> <<"Agent error: ", ExceptionText>>,
                 is_grounded |-> FALSE,
                 tool_calls |-> <<>>,
                 tool_result |-> <<>>,
                 reasoning_steps |-> <<"Agent invocation failed: ", ExceptionText>>,
                 documents |-> <<>>,
                 document_sources |-> <<>> ])
        ELSE InvokeReturned(
               [ answer |-> s.generation,
                 is_grounded |-> s.is_grounded,
                 tool_calls |-> s.tool_calls,
                 tool_result |-> s.tool_result,
                 reasoning_steps |-> s.reasoning_steps,
                 documents |-> processed_docs,
                 document_sources |-> s.document_sources,
                 web_search_results |-> s.web_search_results ])


Count(node) == Cardinality({i \in 1..Len(trace) : trace[i] = node})
LastNode == IF trace = <<>> THEN "none" ELSE trace[Len(trace)]
IsPrefix(a, b) == Len(a) <= Len(b) /\ a = SubSeq(b, 1, Len(a))

\* Retrieve -> Grade cycles executed so far
Cycles ==
    Cardinality({i \in 1..(Len(trace) - 1) :
                    trace[i] = "retrieve" /\ trace[i + 1] = "grade"})

\* the cap on executed nodes never stops a run of the graph
StepCapUnused == pc \in Nodes => Len(trace) < MaxSteps

\* C1: every run of the graph ends: whatever the Retriever, Grader, Rewriter,
\* Generator, Verifier, Tool Detector and Memory Context Provider return or
\* raise, at most 15 nodes execute, and as long as the run has not reached END
\* (or stopped because the Memory Writer raised out of memory_storage) a next
\* node is ready to run.
C1_Terminates ==
    /\ Len(trace) <= 15
    /\ pc \in Nodes \cup {"END", "RAISED"}
    /\ pc \in Nodes => ENABLED Next
    /\ pc = "RAISED" => LastNode = "memory_storage" /\ state.should_store_memory

C1_Witness == pc = "END" /\ Len(trace) = 15 /\ Cycles = 3

\* C2: a request never runs more than MAX_RETRIES + 1 = 4 Retrieve -> Grade
\* cycles: Retrieve and Grade each run at most 4 times, and at most 3 rewrites
\* are ever run or scheduled.
C2_CycleBound ==
    /\ Cycles <= 3 + 1
    /\ Count("retrieve") <= 3 + 1
    /\ Count("rewrite") + (IF pc = "rewrite" THEN 1 ELSE 0) <= 3

C2_Witness == pc = "END" /\ Cycles = 3

\* C3: when three Grade executions in a row end with no relevant document, the
\* third one hands over to Fail, not Rewrite, and the run ends with the fixed
\* fallback message and should_store_memory = FALSE.
C3_ThirdEmptyGradeFails ==
    /\ (LastNode = "grade" /\ Count("grade") = 3 /\ state.documents = <<>>)
          => pc = "fail"
    /\ (pc = "END" /\ Count("grade") >= 3 /\ "generate" \notin Range(trace))
          => /\ LastNode = "fail"
             /\ state.generation = FailMessage
             /\ ~state.should_store_memory

C3_Witness ==
    pc = "END" /\ Count("grade") = 3 /\ LastNode = "fail" /\ state.retries = 3

\* C4: when Grade finds no relevant document with the retries counter at
\* MAX_RETRIES = 3 (on entry to Grade, or after Grade has counted the failed
\* round), the next node is Fail and the run ends with the fixed fallback
\* message, is_grounded = FALSE and should_store_memory = FALSE.
C4_EmptyAtMaxRetries ==
    /\ (last_grade.ran /\ state.documents = <<>>
        /\ (last_grade.retries_in = 3 \/ state.retries = 3))
          => pc = "fail"
    /\ (pc = "END" /\ LastNode = "fail")
          => /\ state.generation = FailMessage
             /\ ~state.is_grounded
             /\ ~state.should_store_memory

C4_Witness == pc = "END" /\ LastNode = "fail" /\ state.retries = 4

MemoryPath ==
    <<"memory_retrieval", "check_memory_question", "memory_answer", "memory_storage">>

\* C5: once the classifier has set is_memory_question, the nodes that run are
\* exactly memory_retrieval, check_memory_question, memory_answer,
\* memory_storage, in this order: Retrieve, Grade, Rewrite, Generate and Fail
\* never run.
C5_MemoryBranch ==
    state.is_memory_question =>
        /\ IsPrefix(trace, MemoryPath)
        /\ pc = "END" => trace = MemoryPath

C5_Witness == state.is_memory_question /\ pc = "END" /\ state.should_store_memory

\* the request started with nothing stored in either memory
PriorMemoryEmpty ==
    /\ Len(get_history(short_store, SessionId, UserId, max_exchanges))
          = Len(writer_calls)
    /\ Len(long_store) <= Len(writer_calls)

\* a node fell back to a user-visible failure answer
Degraded ==
    Range(state.reasoning_steps)
        \cap {"Generation error", "Error", "Max retries reached"} # {}

\* get_context and the answer chains all returned
NoCallFailed ==
    ~Degraded /\ "Memory retrieval error" \notin Range(state.reasoning_steps)

\* C6: a memory question asked with empty prior memory ends with the canned
\* no-conversation-history message and is_grounded = TRUE (get_context is called
\* on the empty store and returns).
C6_EmptyMemoryCanned ==
    (pc = "END" /\ state.is_memory_question /\ PriorMemoryEmpty /\ NoCallFailed)
        => state.generation = NoHistoryMessage /\ state.is_grounded

\* C7: a page question for which page_retrieve found no chunk ends with
\* is_grounded = FALSE and the message that no content was found for the page.
C7_EmptyPageUngrounded ==
    (pc = "END" /\ "page_retrieve" \in Range(trace) /\ state.documents = <<>>)
        => /\ ~state.is_grounded
           /\ state.generation = PageErrorMessage(state.page_number)

\* C8: Grade fails open: a passage whose grader call raised is in the documents
\* Grade returns, next to the passages graded yes, and the run goes on to
\* Generate.
C8_FailOpen ==
    (last_grade.ran /\ last_grade.errors # {}) =>
        /\ \A i \in last_grade.errors \cup last_grade.yes :
              last_grade.docs_in[i] \in Range(state.documents)
        /\ Len(state.documents)
              >= Cardinality(last_grade.errors \cup last_grade.yes)
        /\ pc = "generate"

C8_Witness ==
    /\ last_grade.ran /\ last_grade.errors # {} /\ last_grade.yes # {}
    /\ pc = "generate"

\* C9: no node lets an exception leave it, memory_storage included: a run never
\* stops because a node raised.
C9_NoEscape == pc # "RAISED"

\* C10: a run in which a node fell back to a failure answer ends with
\* is_grounded = FALSE.
C10_DegradedUngrounded == (pc = "END" /\ Degraded) => ~state.is_grounded

IsSuffix(a, b) == Len(a) <= Len(b) /\ a = SubSeq(b, Len(b) - Len(a) + 1, Len(b))

\* the add_exchange of thread t ran alone: every other call returned before it
\* began or began after it returned
RanAlone(t) ==
    \A u \in Threads \ {t} :
        \/ calls[u].pc = "idle"
        \/ u \in calls[t].began_after
        \/ calls[u].pc # "idle" /\ t \in calls[u].began_after

\* thread t made the last add_exchange for the key the reader then read, with
\* no call in progress during the read
LastWriteBeforeRead(t) ==
    /\ context.read /\ context.in_flight = {}
    /\ context.after # <<>> /\ context.after[Len(context.after)] = t
    /\ calls[t].session_id = context.session_id
    /\ RanAlone(t)

\* C11: after add_exchange(s, u, q, a, ...) a following get_context(s, u, ..)
\* returns a short_term text that contains the question q and the answer a of
\* the exchange, the most recent exchange last.
C11_RoundTrip ==
    \A t \in Threads :
        LastWriteBeforeRead(t) =>
            IsSuffix(<<" Q: ">> \o calls[t].question
                        \o <<"\n    A: ">> \o calls[t].answer,
                     context.short_term)

\* C12: two add_exchange calls for the same (user_id, session_id) that run at
\* the same time both leave their exchange in the stored history of the key.
C12_NoLostUpdate ==
    (/\ \A t \in Threads : calls[t].pc = "returned"
     /\ calls[1].session_id = calls[2].session_id)
        => \A t \in Threads :
              ExchangeOf(calls[t]) \in
                  Range(get_history(short_store, calls[t].session_id,
                                    calls[t].user_id, max_exchanges))

\* C13: in every state of every run 0 <= retries <= MAX_RETRIES + 1 = 4, also
\* when the Retriever raises (a failed retrieval and the Grade that follows it
\* each add 1).
C13_RetriesBounded == state.retries \in 0..(3 + 1)

C13_Witness ==
    /\ state.retries = 4
    /\ "Retrieval error" \in Range(state.reasoning_steps)
    /\ LastNode = "grade"

\* C14: Fail is entered only from the Grade conditional and only with
\* retries > MAX_RETRIES = 3; a Grade that keeps nothing with retries <= 3 is
\* followed by Rewrite.
C14_FailOnlyAboveMax ==
    /\ pc = "fail" => LastNode = "grade" /\ state.retries > 3
    /\ (last_grade.ran /\ state.documents = <<>> /\ state.retries <= 3)
          => pc = "rewrite"

\* C15: a question that matches both a memory keyword and a page pattern is
\* routed to memory_answer; page_retrieve and page_answer never run for it.
C15_MemoryBeforePage ==
    (\/ pc \in {"page_retrieve", "page_answer"}
     \/ "page_retrieve" \in Range(trace)
     \/ "page_answer" \in Range(trace)
     \/ LastNode = "check_memory_question" /\ pc # "memory_answer")
        => ~(/\ _is_memory_question(state.original_question)
             /\ _extract_page_number(state.original_question) # NoPage)

C15_Witness ==
    /\ _is_memory_question(state.original_question)
    /\ _extract_page_number(state.original_question) # NoPage
    /\ "memory_answer" \in Range(trace)
    /\ pc = "END"

\* the label retrieve_node gives the source of one retrieval result
SourceLabel(r) == <<GetOr(r.source, "Unknown"), " (", GetOr(r.type, "text"), ")">>

\* C16: in every state document_sources is as long as documents, and on the
\* retrieval path document_sources[i] is the source of documents[i], also after
\* Grade has filtered the passages.
C16_SourcesAligned ==
    /\ Len(state.document_sources) = Len(state.documents)
    /\ "retrieve" \in Range(trace) =>
          \A i \in 1..Len(state.documents) :
              /\ i <= Len(state.document_sources)
              /\ i <= Len(state.retrieval_results)
              /\ state.retrieval_results[i].content = state.documents[i]
              /\ state.document_sources[i] = SourceLabel(state.retrieval_results[i])

\* C17: original_question starts as the question given to invoke and no node
\* ever changes it, however often Rewrite replaces question; the question of
\* every Memory Writer call is original_question.
C17_OriginalImmutable ==
    /\ state.original_question = state.question
    /\ [][ /\ state'.original_question = state.original_question
           /\ writer_calls' # writer_calls =>
                 writer_calls'[Len(writer_calls')].question
                     = state.original_question ]_vars

C17_Witness ==
    /\ pc = "END"
    /\ state.question # state.original_question
    /\ state.original_question \in Questions
    /\ writer_calls # <<>>
    /\ writer_calls[1].question = state.original_question

\* C18: web_search never fails the request: whatever extraction, fetching or
\* the regeneration do, the node returns an update, the next node is
\* memory_storage, and an update without web content leaves the answer as it
\* was.
C18_WebNeverFails ==
    [][ pc = "web_search" =>
          /\ pc' = "memory_storage"
          /\ DOMAIN state' = DOMAIN state
          /\ state'.web_search_results = <<>> =>
                state'.generation = state.generation ]_vars

C18_Witness ==
    /\ LastNode = "web_search"
    /\ "Web search failed" \in Range(state.reasoning_steps)
    /\ state.generation \in AnswerTexts
    /\ pc = "memory_storage"

\* what the classifier has to answer for each question text
ExpectedClass(q) ==
    CASE q = <<"how do i reset", " ", "my password">> -> <<FALSE, FALSE, NoPage>>
      [] q = <<"Summarize", " ", "what we", " ", "discussed">> -> <<TRUE, FALSE, NoPage>>
      [] q = <<"what's on", " ", "page", " ", "7", "?">> -> <<FALSE, TRUE, 7>>
      [] q = <<"Recap", " ", "page", " ", "2">> -> <<TRUE, TRUE, 2>>
      [] q = <<"show the", " ", "2", "nd", " ", "page">> -> <<FALSE, TRUE, 2>>

Classification(s) == <<s.is_memory_question, s.is_page_question, s.page_number>>

\* C19: the classifier is a function of the question text alone and has no side
\* effect: Classify gives the same (is_memory_question, is_page_question,
\* page_number) for the same text in every request, whatever the memories hold,
\* and changes nothing but these fields and the reasoning trail.
C19_ClassifierDeterministic ==
    [][ pc = "check_memory_question" =>
          /\ Classification(state') = ExpectedClass(state.question)
          /\ UNCHANGED <<short_store, long_store, has_long_term, writer_calls>>
          /\ \A k \in DOMAIN state \ {"is_memory_question", "is_page_question",
                                      "page_number", "reasoning_steps"} :
                state'[k] = state[k] ]_vars

C19_Witness ==
    /\ LastNode = "check_memory_question"
    /\ state.memory_context = <<>>
    /\ Classification(state) = <<TRUE, FALSE, NoPage>>

\* C20: after Classify is_memory_question and is_page_question are never both
\* TRUE, and page_number is unset whenever is_memory_question is TRUE.
C20_PageOnlyIfNotMemory ==
    /\ ~(state.is_memory_question /\ state.is_page_question)
    /\ state.is_memory_question => state.page_number = NoPage

RetryNodes == {"retrieve", "grade", "rewrite"}

\* C21: Reflect never starts another retry cycle: once Generate has run,
\* Retrieve, Grade and Rewrite never run again and retries keeps its value,
\* whatever the verifier returns or raises; Reflect is followed by web_search,
\* web_search by memory_storage, and memory_storage ends the run.
C21_NoRetryAfterGenerate ==
    [][ (pc = "generate" \/ "generate" \in Range(trace)) =>
          /\ state'.retries = state.retries
          /\ pc \notin RetryNodes /\ pc' \notin RetryNodes
          /\ pc = "generate" => pc' = "reflect"
          /\ pc = "reflect" => pc' = "web_search"
          /\ pc = "web_search" => pc' = "memory_storage"
          /\ pc = "memory_storage" => pc' \in {"END", "RAISED"} ]_vars

C21_Witness ==
    /\ pc = "END"
    /\ "Additional verification needed" \in Range(state.reasoning_steps)
    /\ ~state.is_grounded
    /\ state.retries > 0
    /\ SubSeq(trace, Len(trace) - 3, Len(trace))
          = <<"generate", "reflect", "web_search", "memory_storage">>

\* the answer uses the fallback phrasing
FallbackPhrasing(generation) ==
    \E i \in 1..Len(generation) :
        generation[i] \in {"not available", "Not Available", "NOT AVAILABLE",
                           "not present", "Not Present", "NOT PRESENT"}

\* the verifier call returned the verdict yes
VerdictYes(outcome) == outcome = Returned(<<"{\"score\": \"yes\"}">>)

\* C22: after Reflect is_grounded is TRUE exactly when the answer does not use
\* the fallback phrasing and the verifier call returned the verdict yes; with
\* the fallback phrasing the verifier is not called; a verifier failure gives
\* is_grounded = FALSE.
C22_GroundedIffVerified ==
    last_verify.ran =>
        /\ state.is_grounded <=>
              (/\ ~FallbackPhrasing(state.generation)
               /\ last_verify.called
               /\ VerdictYes(last_verify.outcome))
        /\ FallbackPhrasing(state.generation) => ~last_verify.called
        /\ ~FallbackPhrasing(state.generation) => last_verify.called
        /\ (last_verify.called /\ last_verify.outcome.raised) => ~state.is_grounded

C22_Witness ==
    /\ last_verify.ran /\ ~last_verify.called
    /\ FallbackPhrasing(state.generation)
    /\ ~state.is_grounded

\* C23: memory_storage calls the Memory Writer exactly when should_store_memory
\* is TRUE on entry, with question = original_question, answer = generation,
\* store_long_term = is_grounded and importance 0.7 if is_grounded else 0.4; no
\* other node calls it.
C23_WriterCalledIffStore ==
    [][ /\ writer_calls' # writer_calls => pc = "memory_storage"
        /\ pc = "memory_storage" =>
              IF state.should_store_memory
              THEN writer_calls' = Append(writer_calls,
                       [ session_id |-> state.session_id,
                         user_id |-> state.user_id,
                         question |-> state.original_question,
                         answer |-> state.generation,
                         domain |-> state.domain,
                         store_long_term |-> state.is_grounded,
                         importance |-> IF state.is_grounded THEN 7 ELSE 4 ])
              ELSE writer_calls' = writer_calls ]_vars

C23_Witness ==
    /\ pc = "END"
    /\ Len(writer_calls) = 1
    /\ writer_calls[1].importance = 4
    /\ ~writer_calls[1].store_long_term
    /\ writer_calls[1].answer = state.generation

\* C24: when get_context raises in memory_retrieval, memory_context and
\* long_term_memory are empty, original_question is set, and the next node is
\* check_memory_question.
C24_ProviderFailure ==
    (/\ LastNode = "memory_retrieval"
     /\ "Memory retrieval error" \in Range(state.reasoning_steps))
        => /\ state.memory_context = <<>>
           /\ state.long_term_memory = <<>>
           /\ state.original_question = state.question
           /\ state.original_question \in Questions
           /\ pc = "check_memory_question"

C24_Witness ==
    /\ "Memory retrieval error" \in Range(state.reasoning_steps)
    /\ state.memory_context = <<>>
    /\ "check_memory_question" \in Range(trace)
    /\ pc = "END"

\* the last entry of the reasoning trail
LastReason(s) ==
    IF s.reasoning_steps = <<>> THEN "none"
    ELSE s.reasoning_steps[Len(s.reasoning_steps)]

WebFailureReasons ==
    { "Web search failed", "No answer to search for hyperlinks",
      "No hyperlinks found or web content unavailable" }

\* C25 as stated: any fetch failure or regeneration failure in web_search, and
\* a text without URL, leave generation equal to the answer that entered the
\* node.
C25_WebLeavesAnswer ==
    [][ (/\ pc = "web_search"
         /\ LastReason(state') \in WebFailureReasons
                \cup {"Enhancement failed, appending web content"})
          => state'.generation = state.generation ]_vars

\* C25 amended: when extraction raises, no URL is found or no fetch gives
\* content, generation is unchanged; when the regeneration fails after a fetch
\* gave content, generation is the answer that entered the node followed by
\* the separator and the fetched content.
C25_WebDegrades ==
    [][ pc = "web_search" =>
          /\ LastReason(state') \in WebFailureReasons =>
                /\ state'.generation = state.generation
                /\ state'.web_search_results = <<>>
          /\ LastReason(state') = "Enhancement failed, appending web content" =>
                /\ state'.web_search_results # <<>>
                /\ state'.generation = state.generation
                      \o <<"\n\n---\n**Additional Context from the Link:**\n">>
                      \o state'.web_search_results ]_vars

C25_Witness ==
    /\ LastNode = "web_search"
    /\ LastReason(state) = "Enhancement failed, appending web content"
    /\ IsPrefix(<<"see ", "https://a.example/x", " for the steps">>, state.generation)
    /\ Len(state.generation) > 3

SummaryEdges ==
    { <<"memory_retrieval", "check_memory_question">>,
      <<"check_memory_question", "memory_answer">>,
      <<"check_memory_question", "page_retrieve">>,
      <<"check_memory_question", "tool_detection">>,
      <<"memory_answer", "memory_storage">>,
      <<"page_retrieve", "page_answer">>,
      <<"page_answer", "memory_storage">>,
      <<"tool_detection", "retrieve">>,
      <<"retrieve", "grade">>,
      <<"grade", "rewrite">>,
      <<"grade", "generate">>,
      <<"grade", "fail">>,
      <<"rewrite", "retrieve">>,
      <<"generate", "reflect">>,
      <<"reflect", "web_search">>,
      <<"web_search", "memory_storage">>,
      <<"memory_storage", "END">>,
      <<"fail", "END">> }

\* C27: every run follows the state-machine summary: it starts at
\* memory_retrieval, each node is followed by a node the summary allows, and
\* every node but retrieve, grade and rewrite runs at most once.
C27_FollowsSummary ==
    /\ trace # <<>> => trace[1] = "memory_retrieval"
    /\ trace = <<>> => pc = "memory_retrieval"
    /\ \A i \in 1..(Len(trace) - 1) : <<trace[i], trace[i + 1]>> \in SummaryEdges
    /\ (trace # <<>> /\ pc # "RAISED") => <<LastNode, pc>> \in SummaryEdges
    /\ \A n \in Nodes \ RetryNodes : Count(n) <= 1

C27_Witness ==
    /\ pc = "END"
    /\ Count("rewrite") = 2
    /\ LastNode = "memory_storage"
    /\ "generate" \in Range(trace)

\* C28: in every state retrieval_results is parallel to documents: same length,
\* and retrieval_results[i].content is documents[i], after Retrieve, after
\* page_retrieve and after the filtering of Grade.
C28_ResultsParallel ==
    /\ Len(state.retrieval_results) = Len(state.documents)
    /\ \A i \in 1..Len(state.documents) :
          state.retrieval_results[i].content = state.documents[i]

C28_Witness ==
    /\ last_grade.ran
    /\ Len(last_grade.docs_in) = 2
    /\ state.documents = <<last_grade.docs_in[2]>>
    /\ Len(state.retrieval_results) = 1

\* the entries of list at the indices in S, in their order
Pick(list, S) ==
    LET idx == SelectSeq([i \in 1..Len(list) |-> i], LAMBDA i : i \in S)
    IN  [j \in 1..Len(idx) |-> list[idx[j]]]

\* C29: Grade keeps the order of the passages: the documents it returns are the
\* passages it received at some set of positions, in their original order,
\* none twice and none new, whatever mix of yes, no and failed verdicts.
C29_GradeKeepsOrder ==
    last_grade.ran =>
        \E S \in SUBSET (1..Len(last_grade.docs_in)) :
            /\ state.documents = Pick(last_grade.docs_in, S)
            /\ last_grade.errors \cup last_grade.yes \subseteq S

C29_Witness ==
    /\ last_grade.ran
    /\ Len(last_grade.docs_in) = MaxDocs
    /\ state.documents = last_grade.docs_in
    /\ last_grade.errors # {} /\ last_grade.yes # {}

\* C30: reasoning_steps is append-only: after every node that returns, the
\* earlier reasoning_steps is a prefix of the new one and at least one entry
\* was added.
C30_ReasoningAppendOnly ==
    [][ (trace' # trace /\ pc' # "RAISED") =>
          /\ IsPrefix(state.reasoning_steps, state'.reasoning_steps)
          /\ Len(state'.reasoning_steps) > Len(state.reasoning_steps) ]_vars

C30_Witness ==
    /\ pc = "END" /\ LastNode = "fail"
    /\ Len(state.reasoning_steps) > Len(trace)
    /\ state.reasoning_steps[1] = "Retrieving relevant memories..."

\* C31: parse_json_safe returns, for every text an LLM call returned, a record
\* that the calling node can read a field from.
C31_ParserReturnsRecord ==
    (last_verify.called /\ ~last_verify.outcome.raised) =>
        parse_json_safe(last_verify.outcome.text).isdict

\* Retrieve executions so far in which hybrid_search raised
RetrievalErrors ==
    Cardinality({i \in 1..Len(state.reasoning_steps) :
                    state.reasoning_steps[i] = "Retrieval error"})

\* C32: a Retrieve whose hybrid_search raised costs two units of the retry
\* budget, one counted by Retrieve and one by the Grade that follows: a run
\* in which every Retrieve raised reaches Fail after exactly 2 cycles and 1
\* rewrite, and a run in which no Retrieve raised and Grade never kept a
\* passage reaches Fail after exactly 3 cycles and 2 rewrites.
C32_FailureCostsTwo ==
    /\ (LastNode = "grade" /\ pc \in {"rewrite", "fail"}
        /\ "generate" \notin Range(trace))
          => state.retries = Count("grade") + RetrievalErrors
    /\ (pc = "END" /\ LastNode = "fail")
          => /\ RetrievalErrors = Count("retrieve")
                  => Cycles = 2 /\ Count("rewrite") = 1 /\ state.retries = 4
             /\ RetrievalErrors = 0
                  => Cycles = 3 /\ Count("rewrite") = 2 /\ state.retries = 3

C32_Witness ==
    /\ pc = "END" /\ LastNode = "fail"
    /\ RetrievalErrors = 2 /\ Count("retrieve") = 2 /\ Count("rewrite") = 1

NoDocumentsContext == <<"No relevant documents found.">>

\* C33 as stated: on entry to generate documents has at least one passage,
\* and the context generate_node builds is never the no-documents text.
C33_GenerateHasContext ==
    pc = "generate" =>
        /\ Len(state.documents) >= 1
        /\ GenerateContext(state) # NoDocumentsContext

\* C33 amended: on entry to generate documents has at least one passage; the context
\* generate_node builds is the no-documents text exactly when every passage
\* Grade kept has empty text.
C33_GenerateHasPassage ==
    pc = "generate" =>
        /\ Len(state.documents) >= 1
        /\ GenerateContext(state) = NoDocumentsContext
              <=> \A i \in 1..Len(state.documents) : state.documents[i] = <<>>

C33_Witness ==
    /\ pc = "generate" /\ LastNode = "grade"
    /\ Len(state.documents) = 1
    /\ GenerateContext(state) = NoDocumentsContext

\* C34: the Memory Writer is called at most once per request, and never in a
\* run that passes through fail: fail is followed directly by END, with no
\* memory_storage in between.
C34_WriterAtMostOnce ==
    /\ Len(writer_calls) <= 1
    /\ pc = "fail" => writer_calls = <<>>
    /\ "fail" \in Range(trace)
          => /\ writer_calls = <<>>
             /\ LastNode = "fail" /\ pc = "END"
             /\ "memory_storage" \notin Range(trace)

C34_Witness ==
    /\ pc = "END" /\ "fail" \in Range(trace)
    /\ writer_calls = <<>>
    /\ Count("grade") = 3

\* C35: the workflow graph never runs tool_execution: in every run the node is
\* neither scheduled nor executed, and tool_result keeps its initial empty
\* value to the end, also when tool_detection recorded a tool in tool_calls.
C35_ToolNeverExecuted ==
    /\ pc # "tool_execution"
    /\ "tool_execution" \notin Range(trace)
    /\ state.tool_result = <<>>

C35_Witness ==
    /\ pc = "END"
    /\ state.tool_calls # <<>> /\ state.tool_calls[1].tool = "create_ticket"
    /\ state.tool_result = <<>>

\* C36: invoke is total: when the graph has ended, or an exception has left
\* it (the Memory Writer raising in memory_storage), invoke returns a record;
\* in the second case the answer is the agent-error message, is_grounded is
\* FALSE and tool_calls, documents and document_sources are empty.
C36_InvokeTotal ==
    /\ pc \in {"END", "RAISED"} => ~invoke(pc, state).raised
    /\ pc = "RAISED" =>
          LET r == invoke(pc, state).result
          IN  /\ Take(r.answer, 1) = <<"Agent error: ">>
              /\ ~r.is_grounded
              /\ r.tool_calls = <<>>
              /\ r.documents = <<>>
              /\ r.document_sources = <<>>

C36_Witness ==
    /\ pc = "RAISED"
    /\ state.is_grounded /\ state.documents # <<>> /\ state.tool_calls # <<>>
    /\ ~invoke(pc, state).result.is_grounded

\* histories as the two backends keep them for key k, in full
MemStored(k) == get_history(short_store, k.session_id, k.user_id, max_exchanges + 1)
RedisStored(k) == redis_get_history(redis_store, k.session_id, k.user_id, max_exchanges + 1)

\* the exchanges added to key k since its last clear, cut to the newest max_exchanges
RecentExchanges(k) ==
    LET since == stm_calls[k].since
        len == IF since > max_exchanges THEN max_exchanges ELSE since
    IN  [i \in 1..len |-> ExchangeOf(StmCall(k, stm_calls[k].adds - len + i))]

\* C37: after any sequence of add_exchange and clear_session calls the history
\* kept for a key has at most max_exchanges exchanges and is the newest
\* max_exchanges exchanges added since the key was last cleared, oldest first:
\* an add_exchange beyond the bound evicts the oldest one.
C37_BoundedFifo ==
    \A k \in StmKeys :
        /\ Len(MemStored(k)) <= max_exchanges
        /\ Len(RedisStored(k)) <= max_exchanges
        /\ MemStored(k) = RecentExchanges(k)
        /\ RedisStored(k) = RecentExchanges(k)

C37_Witness ==
    /\ stm_calls[FirstKey] = [adds |-> max_exchanges + 2, since |-> max_exchanges + 1]
    /\ Len(MemStored(FirstKey)) = max_exchanges
    /\ MemStored(FirstKey)[1] = ExchangeOf(StmCall(FirstKey, 3))
    /\ RedisStored(FirstKey)[max_exchanges] = ExchangeOf(StmCall(FirstKey, max_exchanges + 2))

\* C38: under sequential use the Redis-backed and the in-memory store return
\* the same history for every key and every n (0 for n = None) after every
\* add_exchange and clear_session call.
C38_BackendsAgree ==
    \A k \in StmKeys : \A n \in 0..(max_exchanges + 1) :
        redis_get_history(redis_store, k.session_id, k.user_id, n)
            = get_history(short_store, k.session_id, k.user_id, n)

C38_Witness ==
    /\ last_op.op = "clear_session" /\ last_op.key # FirstKey
    /\ stm_calls[last_op.key].adds > 0
    /\ RedisStored(last_op.key) = <<>>
    /\ Len(RedisStored(FirstKey)) = max_exchanges
    /\ redis_get_history(redis_store, SessionId, UserId, 3)
          = get_history(short_store, SessionId, UserId, 3)
    /\ redis_store[_get_key(SessionId, UserId)] # short_store[_get_key(SessionId, UserId)]

\* C39: an add_exchange or clear_session call on one key leaves the history of
\* every other key as it was, on both backends, and from a clear_session on a
\* key to the next add_exchange on it the key's history is empty.
C39_KeysIsolated ==
    [][ \A k \in StmKeys :
          /\ (last_op'.op # "none" /\ last_op'.key # k) =>
                /\ get_history(short_store', k.session_id, k.user_id, 0) = MemStored(k)
                /\ redis_get_history(redis_store', k.session_id, k.user_id, 0)
                      = RedisStored(k)
          /\ stm_calls'[k].since = 0 =>
                /\ get_history(short_store', k.session_id, k.user_id, 0) = <<>>
                /\ redis_get_history(redis_store', k.session_id, k.user_id, 0) = <<>> ]_vars

C39_Witness ==
    /\ last_op = [op |-> "clear_session", key |-> FirstKey]
    /\ stm_calls[FirstKey].adds = 2 /\ MemStored(FirstKey) = <<>>
    /\ \A k \in StmKeys \ {FirstKey} :
          Len(MemStored(k)) = 2 /\ Len(RedisStored(k)) = 2

====
